---------------------------- MODULE Spec2Model ----------------------------
(***************************************************************************)
(* FTDC decoding as done by ftdc_tools: the generator-based decoder of     *)
(* src/src/ftdc_tools/decode.py (decode_iter, _iter_chunk) and the         *)
(* streaming decoder of src/ftdc_tools/ftdc_decoder.py (class FTDC).       *)
(*                                                                         *)
(* A stream is a sequence of BSON envelopes.  The envelope framing is kept *)
(* at the level of byte counts (declared lengths, bytes delivered so far); *)
(* the varint part of a chunk payload is kept byte for byte.  The BSON     *)
(* reference document of a chunk is a tree of typed nodes.                 *)
(***************************************************************************)
EXTENDS Integers, Sequences, FiniteSets, TLC

(***************************************************************************)
(* Bounds of the explored inputs.                                          *)
(***************************************************************************)
MaxTokens == 3      \* varints in the delta part of an enumerated payload
MaxDeltas == 2      \* largest delta_count header of an enumerated payload
MaxEnvs   == 2      \* envelopes in an enumerated multi-envelope stream
MaxRecords == 3     \* records of an enumerated rollup input
MaxQueries == 2     \* queries made of one rollup
MaxVarintBits == 26 \* largest power of two among the varint values read

(***************************************************************************)
(* Program constants.                                                      *)
(***************************************************************************)
BSON_DOUBLE    == 1
BSON_STRING    == 2
BSON_SUBDOC    == 3
BSON_ARRAY     == 4
BSON_BINDATA   == 5
BSON_OBJECTID  == 7
BSON_BOOL      == 8
BSON_DATETIME  == 9
BSON_INT32     == 16
BSON_TIMESTAMP == 17
BSON_INT64     == 18
CHUNK_TYPE     == 1      \* chunk_doc[b"type"] == 1
LEN_PREFIX     == 4      \* len(frame) < 4
MEMORY_FACTOR  == 5      \* self.memory = 5 * doc_len
GROUP          == 128    \* b & 0x7F, b & 0x80
None           == -1     \* Python's None where the other values are >= 0

(***************************************************************************)
(* Sequences helpers.                                                      *)
(***************************************************************************)
RECURSIVE Concat(_)
Concat(ss) == IF ss = <<>> THEN <<>> ELSE Head(ss) \o Concat(Tail(ss))

RECURSIVE SumSeq(_)
SumSeq(s) == IF s = <<>> THEN 0 ELSE Head(s) + SumSeq(Tail(s))

RECURSIVE Pow(_, _)
Pow(b, n) == IF n = 0 THEN 1 ELSE b * Pow(b, n - 1)

SeqsUpTo(S, n) == UNION { [1..k -> S] : k \in 0..n }

(***************************************************************************)
(* Reference documents: ordered mappings of typed BSON nodes.              *)
(***************************************************************************)
Leaf(k, t, v) == [key |-> k, bt |-> t, val |-> v, sub |-> <<>>]
Doc(k, d)     == [key |-> k, bt |-> BSON_SUBDOC, val |-> 0, sub |-> d]

R0 == <<>>
R1 == << Leaf("a", BSON_INT64, 5) >>
R2 == << Leaf("f", BSON_BOOL, 1),
         Doc("s", << Leaf("t", BSON_DATETIME, 1000) >>) >>
R3 == << Leaf("a", BSON_INT64, 5),
         Doc("s", << Leaf("b", BSON_INT64, -3),
                     Doc("u", << Leaf("c", BSON_BOOL, 0) >>) >>) >>
R4 == << Leaf("n", BSON_INT32, 7), Leaf("w", BSON_STRING, 0) >>
RefDocs == {R0, R1, R2, R3, R4}

(***************************************************************************)
(* Varint bytes of a payload: whole encodings, optionally followed by one  *)
(* continuation byte that no terminator follows.                           *)
(***************************************************************************)
VZero == << 0 >>
VOne  == << 1 >>
VTwo  == << 2 >>
VNeg  == << 255, 255, 255, 255, 255, 255, 255, 255, 255, 1 >>   \* -1
VCont == << 128 >>
Tokens == {VZero, VOne, VTwo, VNeg}

(***************************************************************************)
(* The varint encoding of a signed 64-bit value v: the base-128 digits of  *)
(* v mod 2^64, least significant first, every byte but the last with the   *)
(* high bit set.  A negative v of at most 28 bits has the low four digits  *)
(* of 2^28 + v, five digits of 127 and a last digit of 1.                  *)
(***************************************************************************)
RECURSIVE NatDigits(_)
NatDigits(u) ==
    IF u < GROUP THEN << u >> ELSE << u % GROUP >> \o NatDigits(u \div GROUP)

EncodeDigits(v) ==
    IF v >= 0 THEN NatDigits(v)
    ELSE [j \in 1..4 |-> ((Pow(GROUP, 4) + v) \div Pow(GROUP, j - 1)) % GROUP]
         \o [j \in 1..5 |-> GROUP - 1] \o << 1 >>

Encode(v) ==
    LET g == EncodeDigits(v)
    IN  [j \in 1..Len(g) |-> IF j < Len(g) THEN g[j] + GROUP ELSE g[j]]

\* The values read in single calls: around every power of two, both signs.
VarintValues ==
    UNION { { Pow(2, s) - 1, Pow(2, s), -Pow(2, s), 1 - Pow(2, s) } :
            s \in 0..MaxVarintBits }

\* A call reads the encoding of v at position at of data, after the bytes
\* of an earlier varint and before the bytes of a later one.
VarintCalls ==
    { [fn |-> "varint", v |-> v, data |-> pre \o Encode(v) \o suf,
       at |-> Len(pre) + 1] :
        v \in VarintValues, pre \in {<<>>, << 129, 1 >>},
        suf \in {<<>>, << 0 >>, << 255, 1 >>} }

(***************************************************************************)
(* decode.py _decode_varint: 7 bits per byte, little endian, until a byte  *)
(* with the high bit clear.  BytesIO.read(1) past the end returns b"",     *)
(* which int.from_bytes turns into 0.  The accumulated value is kept as    *)
(* its base-128 digits; Signed64 is the reinterpretation of lines 200-201  *)
(* on the digits (the values of the explored payloads fit 28 bits or are   *)
(* the two's complement of such a value).                                  *)
(***************************************************************************)
RECURSIVE DigitsValue(_)
DigitsValue(g) == IF g = <<>> THEN 0 ELSE Head(g) + GROUP * DigitsValue(Tail(g))

HighDigits(g) == IF Len(g) <= 4 THEN <<>> ELSE SubSeq(g, 5, Len(g))
LowDigits(g)  == IF Len(g) <= 4 THEN g ELSE SubSeq(g, 1, 4)

\* The accumulator without the reinterpretation of lines 200-201, as far
\* as its low four digits show it.
Unsigned64(g) == DigitsValue(LowDigits(g))

Signed64(g) ==
    CASE \A i \in 1..Len(HighDigits(g)) : HighDigits(g)[i] = 0
             -> DigitsValue(LowDigits(g))
      [] /\ Len(g) = 10
         /\ g[10] = 1
         /\ \A i \in 5..9 : g[i] = GROUP - 1
             -> DigitsValue(LowDigits(g)) - Pow(GROUP, 4)

ByteAt(data, at) == IF at <= Len(data) THEN data[at] ELSE 0

RECURSIVE ReadDigits(_, _, _)
ReadDigits(data, at, g) ==
    LET b  == ByteAt(data, at)
        nx == IF at <= Len(data) THEN at + 1 ELSE at
    IN  IF b < GROUP
        THEN [digits |-> Append(g, b % GROUP), at |-> nx]
        ELSE ReadDigits(data, nx, Append(g, b % GROUP))

decode_varint(data, at) ==
    LET r == ReadDigits(data, at, <<>>)
    IN  [res |-> Signed64(r.digits), at |-> r.at]

(***************************************************************************)
(* ftdc_decoder.py unpack: the same reader over an indexable buffer;       *)
(* data[at] past the end raises IndexError.                                *)
(***************************************************************************)
RECURSIVE UnpackDigits(_, _, _)
UnpackDigits(data, at, g) ==
    IF at > Len(data)
    THEN [digits |-> g, at |-> at, ok |-> FALSE]
    ELSE IF data[at] < GROUP
         THEN [digits |-> Append(g, data[at] % GROUP), at |-> at + 1, ok |-> TRUE]
         ELSE UnpackDigits(data, at + 1, Append(g, data[at] % GROUP))

unpack(data, at) ==
    LET r == UnpackDigits(data, at, <<>>)
    IN  [res |-> IF r.ok THEN Signed64(r.digits) ELSE 0, at |-> r.at, ok |-> r.ok]

(***************************************************************************)
(* decode.py: metric columns of a reference document.  The bson library    *)
(* hands int64 leaves over as Int64, bool as bool and datetime as          *)
(* datetime; every other leaf type is neither and is refused by            *)
(* _get_constructors_for_val.  A value carries its Python type.            *)
(***************************************************************************)
PyVal(t, x) == [ty |-> t, v |-> x]

\* The traversal with the keys of each mapping taken last to first.
RECURSIVE get_paths_and_vals_reversed(_, _)
get_paths_and_vals_reversed(d, key_path) ==
    IF d = <<>> THEN <<>>
    ELSE LET n  == Head(d)
             kp == Append(key_path, n.key)
         IN  get_paths_and_vals_reversed(Tail(d), key_path)
             \o (IF n.bt = BSON_SUBDOC
                 THEN get_paths_and_vals_reversed(n.sub, kp)
                 ELSE << [key_path |-> kp, node |-> n] >>)

RECURSIVE get_paths_and_vals(_, _)
get_paths_and_vals(d, key_path) ==
    IF d = <<>> THEN <<>>
    ELSE LET n  == Head(d)
             kp == Append(key_path, n.key)
         IN  (IF n.bt = BSON_SUBDOC
              THEN get_paths_and_vals(n.sub, kp)
              ELSE << [key_path |-> kp, node |-> n] >>)
             \o get_paths_and_vals(Tail(d), key_path)

get_constructors_for_val(n) ==
    CASE n.bt = BSON_DATETIME -> "datetime"
      [] n.bt = BSON_INT64    -> "int"
      [] n.bt = BSON_BOOL     -> "bool"
      [] OTHER                -> "unknown"

get_metrics_from_ref_doc(ref_doc) ==
    LET pv == get_paths_and_vals(ref_doc, <<>>)
    IN  [j \in 1..Len(pv) |->
            [key_path |-> pv[j].key_path,
             values   |-> << PyVal(get_constructors_for_val(pv[j].node),
                                   pv[j].node.val) >>,
             kind     |-> get_constructors_for_val(pv[j].node)]]

\* previous_val + metric.delta_constructor(delta), decode.py line 104
delta_constructor(kind, delta) ==
    CASE kind = "bool"  -> IF delta = 0 THEN 0 ELSE 1      \* bool(delta)
      [] OTHER          -> delta                           \* identity, timedelta(ms)

\* A delta taken as the value itself rather than added to the previous one.
add_delta_absolute(prev, kind, delta) ==
    PyVal(prev.ty, delta_constructor(kind, delta))

add_delta(prev, kind, delta) ==
    PyVal(IF kind = "bool" THEN "int" ELSE prev.ty,
          prev.v + delta_constructor(kind, delta))

(***************************************************************************)
(* decode.py lines 115-125: the document of sample i, built by inserting   *)
(* each column's value at its key path.                                    *)
(***************************************************************************)
HasKey(doc, k) == \E j \in 1..Len(doc) : doc[j].key = k
KeyIndex(doc, k) == CHOOSE j \in 1..Len(doc) : doc[j].key = k

RECURSIVE SetPath(_, _, _)
SetPath(doc, path, value) ==
    LET k == Head(path)
    IN  IF Len(path) = 1
        THEN LET leaf == [key |-> k, ty |-> value.ty, v |-> value.v, sub |-> <<>>]
             IN  IF HasKey(doc, k)
                 THEN [doc EXCEPT ![KeyIndex(doc, k)] = leaf]
                 ELSE Append(doc, leaf)
        ELSE IF HasKey(doc, k)
             THEN [doc EXCEPT ![KeyIndex(doc, k)].sub = SetPath(@, Tail(path), value)]
             ELSE Append(doc, [key |-> k, ty |-> "doc", v |-> 0,
                               sub |-> SetPath(<<>>, Tail(path), value)])

RECURSIVE BuildDoc(_, _, _)
BuildDoc(ms, i, doc) ==
    IF ms = <<>> THEN doc
    ELSE BuildDoc(Tail(ms), i, SetPath(doc, Head(ms).key_path, Head(ms).values[i]))

(***************************************************************************)
(* ftdc_decoder.py _read_bson_doc with ftdc=True, on the node tree: which  *)
(* nodes of the reference document survive, and extract_keys over them.    *)
(***************************************************************************)
IsDropped(n) == n.bt \in {BSON_STRING, BSON_BINDATA, BSON_OBJECTID, 255, 127}

RECURSIVE read_bson_doc_ftdc(_)
read_bson_doc_ftdc(d) ==
    IF d = <<>> THEN <<>>
    ELSE LET n == Head(d)
             r == read_bson_doc_ftdc(Tail(d))
         IN  CASE IsDropped(n) -> r
               [] n.bt \in {BSON_SUBDOC, BSON_ARRAY}
                    -> << [n EXCEPT !.bt = BSON_SUBDOC,
                                    !.sub = read_bson_doc_ftdc(n.sub)] >> \o r
               [] n.bt = BSON_TIMESTAMP
                    -> << Doc(n.key, << Leaf("t", BSON_INT64, n.val),
                                        Leaf("i", BSON_INT64, 0) >>) >> \o r
               [] OTHER -> << n >> \o r

RECURSIVE extract_keys(_, _)
extract_keys(doc, n) ==
    IF doc = <<>> THEN <<>>
    ELSE LET nn == Append(n, Head(doc).key)
         IN  (IF Head(doc).bt = BSON_SUBDOC
              THEN extract_keys(Head(doc).sub, nn)
              ELSE << [k |-> nn, v |-> Head(doc).val] >>)
             \o extract_keys(Tail(doc), n)

(***************************************************************************)
(* Payloads and envelopes.  A payload is the decompressed data of a chunk: *)
(* reference document, metric_count, delta_count, varint bytes.  An        *)
(* envelope is a top-level BSON document of the stream: its declared       *)
(* length, its type field and, for a chunk, its payload.                   *)
(***************************************************************************)
Payload(r, m, d, bytes) == [ref |-> r, mc |-> m, dc |-> d, data |-> bytes]

NLeaves(r) == Len(extract_keys(read_bson_doc_ftdc(r), <<>>))

RichPayloads ==
    { Payload(r, NLeaves(r) + x, d, Concat(t) \o (IF tail THEN VCont ELSE <<>>)) :
        r \in RefDocs, x \in {0, 1}, d \in 0..MaxDeltas,
        t \in SeqsUpTo(Tokens, MaxTokens), tail \in BOOLEAN }

PA     == Payload(R1, 1, 1, VOne)
PB     == Payload(R2, 2, 0, <<>>)
PBad   == Payload(R1, 2, 0, <<>>)
PEmpty == Payload(R0, 0, 0, <<>>)
PRun   == Payload(R1, 1, 1, VZero \o VTwo)     \* a run that outlasts the chunk
NoPayload == Payload(<<>>, 0, 0, <<>>)

ChunkEnv(p, n) == [type |-> CHUNK_TYPE, hasData |-> TRUE, len |-> n, payload |-> p]
MetaEnv == [type |-> 0, hasData |-> FALSE, len |-> 15, payload |-> NoPayload]
EnvCatalog == {MetaEnv, ChunkEnv(PA, 40), ChunkEnv(PB, 50),
               ChunkEnv(PBad, 40), ChunkEnv(PEmpty, 40), ChunkEnv(PRun, 40)}

StartOf(st, i) == SumSeq([j \in 1..(i - 1) |-> st[j].len])
TotalLen(st)   == StartOf(st, Len(st) + 1)

\* Where the delivered bytes may end: at the end of the stream, or inside the
\* last envelope (within its length prefix, within its body).
RawLens(st) ==
    {TotalLen(st)} \cup
    (IF st = <<>> THEN {}
     ELSE {StartOf(st, Len(st)) + 2, StartOf(st, Len(st)) + 10})

CutPoints(st, e) ==
    { c \in UNION { {StartOf(st, i), StartOf(st, i) + 2, StartOf(st, i) + 10} :
                    i \in 1..Len(st) } : 0 < c /\ c < e }

RECURSIVE SortedSeq(_)
SortedSeq(S) ==
    IF S = {} THEN <<>>
    ELSE LET m == CHOOSE x \in S : \A y \in S : x <= y
         IN  << m >> \o SortedSeq(S \ {m})

\* Blocks ending at the sorted offsets cs, the last one ending at e.
BlocksAt(cs, e) ==
    LET ends == cs \o << e >>
    IN  [j \in 1..Len(ends) |-> ends[j] - (IF j = 1 THEN 0 ELSE ends[j - 1])]

Partitions(st, e) ==
    {<< e >>, BlocksAt(SortedSeq(CutPoints(st, e)), e)}
    \cup { << c, e - c >> : c \in CutPoints(st, e) }
    \cup (IF e = 0 THEN {<<>>} ELSE {})

MemoryChoices == {None, 30, 100}

(***************************************************************************)
(* rollups/client_perf.py: numbers.  The statistics are Python floats;     *)
(* they are kept here as exact fractions num/den in lowest terms with      *)
(* den > 0, so float rounding is not modelled.                             *)
(***************************************************************************)
TO_NANOSECONDS       == 1000000000
NANO_TO_MILLISECONDS == 1000000
MILLIS_PER_SECOND    == 1000

Abs(x) == IF x < 0 THEN -x ELSE x

RECURSIVE Gcd(_, _)
Gcd(a, b) == IF b = 0 THEN a ELSE Gcd(b, a % b)

Q(n, d) ==
    LET g == Gcd(Abs(n), Abs(d))
        s == IF d < 0 THEN -1 ELSE 1
    IN  [num |-> s * (n \div g), den |-> s * (d \div g)]

QInt(n) == [num |-> n, den |-> 1]

QSub(x, y) ==
    LET g == Gcd(x.den, y.den)
    IN  Q(x.num * (y.den \div g) - y.num * (x.den \div g), (x.den \div g) * y.den)

\* x * y and x / y, cancelling common factors before multiplying.
QMul(x, y) ==
    LET a == Q(x.num, y.den)
        b == Q(y.num, x.den)
    IN  Q(a.num * b.num, a.den * b.den)

QDiv(x, y) == QMul(x, [num |-> y.den, den |-> y.num])

QLess(x, y) == QSub(x, y).num < 0
QMin(x, y) == IF QLess(y, x) THEN y ELSE x
QMax(x, y) == IF QLess(x, y) THEN y ELSE x

(***************************************************************************)
(* rollups/client_perf.py: the records a rollup consumes.  ts is in        *)
(* milliseconds, the timers in nanoseconds.  timers names the key that     *)
(* holds the duration d: "dur", "duration", or "none" when the record has  *)
(* neither.  start_ts is the key line 80 adds to a copy: <<>> when absent. *)
(***************************************************************************)
Record(ts, key, d, total, ops, n, size, errors, workers) ==
    [ts |-> ts, timers |-> key, d |-> d, total |-> total, ops |-> ops,
     n |-> n, size |-> size, errors |-> errors, workers |-> workers,
     start_ts |-> <<>>]

RecA == Record(10, "dur",      1000000, 3000000, 1, 1, 4, 0, 1)
RecB == Record(11, "dur",      1500000, 5000000, 2, 3, 8, 1, 2)
RecC == Record(12, "duration", 6000000, 9000000, 3, 4, 9, 1, -1)
RecZ == Record(8,  "dur",      0,       0,       2, 2, 6, 1, 0)
RecN == Record(13, "none",     0,       9500000, 4, 5, 9, 2, 1)
RecordCatalog == {RecA, RecB, RecC, RecZ, RecN}

\* _ts_to_milliseconds, lines 415-416.
ts_to_milliseconds(ts) == QInt(ts)

\* ClientPerformanceStatistics.__init__, lines 35-51 (the source and its
\* position are separate variables).
NewStatistics ==
    [_operations_total |-> 0, _documents_total |-> 0, _size_total |-> 0,
     _errors_total |-> 0, _duration_total |-> 0,
     _extracted_durations |-> <<>>, _wall_time_total |-> QInt(0),
     _timers_total |-> 0, _gauges_workers_min |-> 0,
     _gauges_workers_max |-> 0, first_record |-> <<>>, last_record |-> <<>>,
     _processed |-> FALSE, _min_duration |-> 0, _max_duration |-> 0]

\* Python's min(a, b) and max(a, b) on numbers.
PyMin(a, b) == IF b < a THEN b ELSE a
PyMax(a, b) == IF b > a THEN b ELSE a

\* The update of _gauges_workers_max written with max.
workers_max_update_max(a, b) == PyMax(a, b)

\* Lines 87-89: the update of _gauges_workers_max, which the code writes
\* with min.
workers_max_update(a, b) == PyMin(a, b)

\* The first record in stream order only.
is_first_in_order(c, start_ts) == c.first_record = <<>>

\* Whether line 78 takes the record as the first one.
is_first(c, start_ts) ==
    c.first_record = <<>> \/ QLess(start_ts, c.first_record[1].start_ts[1])

\* The cumulative duration taken as the latency of the record.
extracted_duration_raw(duration, prev) == duration

\* Line 69: extracted_duration = duration - previous_duration.
extracted_duration(duration, prev) == duration - prev

\* Lines 65-90: the body of the loop for one record whose timers hold a
\* duration; prev is previous_duration.
process_record(c, prev, rec) ==
    LET duration  == rec.d
        extracted == extracted_duration(duration, prev)
        start_ts  == QSub(ts_to_milliseconds(rec.ts),
                          Q(extracted, NANO_TO_MILLISECONDS))
        first     == is_first(c, start_ts)
        record    == IF first THEN [rec EXCEPT !.start_ts = << start_ts >>]
                     ELSE rec
    IN  [c EXCEPT
           !._min_duration = IF c.first_record = <<>> THEN extracted
                             ELSE PyMin(@, extracted),
           !._max_duration = IF c.first_record = <<>> THEN extracted
                             ELSE PyMax(@, extracted),
           !.first_record = IF first THEN << record >> ELSE @,
           !.last_record = << record >>,
           !._gauges_workers_min = PyMin(@, rec.workers),
           !._gauges_workers_max = workers_max_update(@, rec.workers),
           !._extracted_durations = Append(@, extracted)]

\* Lines 64-90: the for loop from record pos of rs on.  raised is TRUE when
\* a record without dur and duration stops it (KeyError, line 68); next is
\* the position of the first record not consumed.
RECURSIVE process_loop(_, _, _, _)
process_loop(c, prev, rs, pos) ==
    IF pos > Len(rs) THEN [c |-> c, raised |-> FALSE, next |-> pos]
    ELSE IF rs[pos].timers = "none"
    THEN [c |-> c, raised |-> TRUE, next |-> pos + 1]
    ELSE process_loop(process_record(c, prev, rs[pos]), rs[pos].d, rs, pos + 1)

\* The key start_ts written into the input's own record.
input_record_in_place(rec, start_ts) == [rec EXCEPT !.start_ts = << start_ts >>]

\* Lines 79-80: record = record.copy() comes before record["start_ts"] =
\* start_ts, so the input's own record is left as it was.
input_record(rec, start_ts) == rec

\* Lines 64-90: the records of the input as the loop from record pos on
\* leaves them.
RECURSIVE input_after(_, _, _, _)
input_after(c, prev, rs, pos) ==
    IF pos > Len(rs) THEN rs
    ELSE IF rs[pos].timers = "none" THEN rs
    ELSE LET rec      == rs[pos]
             start_ts == QSub(ts_to_milliseconds(rec.ts),
                              Q(extracted_duration(rec.d, prev),
                                NANO_TO_MILLISECONDS))
         IN  input_after(process_record(c, prev, rec), rec.d,
                         [rs EXCEPT ![pos] = IF is_first(c, start_ts)
                                             THEN input_record(rec, start_ts)
                                             ELSE rec],
                         pos + 1)

\* The record the totals of lines 94-102 are read from.
totals_record_first(c) == c.first_record[1]

totals_record(c) == c.last_record[1]

\* The time from the last record back to the first start, taken the other
\* way round.
time_diff_reversed(last, first) ==
    QSub(first.start_ts[1], ts_to_milliseconds(last.ts))

\* Line 104: the time from the first start to the last record's ts, in
\* milliseconds.
time_diff(last, first) ==
    QSub(ts_to_milliseconds(last.ts), first.start_ts[1])

\* Lines 92-105 and 108: the totals of the last record and the wall time.
process_totals(c) ==
    IF c.first_record = <<>> /\ c.last_record = <<>> THEN c
    ELSE LET last == totals_record(c)
         IN  [c EXCEPT
                !._operations_total = last.ops,
                !._documents_total = last.n,
                !._size_total = last.size,
                !._errors_total = last.errors,
                !._timers_total = last.total,
                !._duration_total = last.d,
                !._wall_time_total = QDiv(time_diff(last, c.first_record[1]),
                                          QInt(MILLIS_PER_SECOND)),
                !._processed = TRUE]

\* _process, lines 54-108, on the records the source still delivers from
\* position pos.
process(c, rs, pos) ==
    IF c._processed THEN [c |-> c, raised |-> FALSE, next |-> pos]
    ELSE LET l == process_loop(c, 0, rs, pos)
         IN  IF l.raised THEN l
             ELSE [c |-> process_totals(l.c), raised |-> FALSE, next |-> l.next]

(***************************************************************************)
(* rollups/client_perf.py: the statistics, as functions of the object's    *)
(* fields.                                                                 *)
(***************************************************************************)
Statistic(name, value, version, user_submitted) ==
    [name |-> name, value |-> value, version |-> version,
     user_submitted |-> user_submitted]

QAdd(x, y) == QSub(x, [num |-> -y.num, den |-> y.den])

\* floor of a fraction
QFloor(x) == IF x.num >= 0 THEN x.num \div x.den
             ELSE -((-x.num + x.den - 1) \div x.den)

\* numpy clip(x, lo, hi) = minimum(maximum(x, lo), hi)
QClip(x, lo, hi) == QMin(QMax(x, lo), hi)

RECURSIVE Insert(_, _)
Insert(x, s) ==
    IF s = <<>> THEN << x >>
    ELSE IF x <= Head(s) THEN << x >> \o s
    ELSE << Head(s) >> \o Insert(x, Tail(s))

RECURSIVE Sorted(_)
Sorted(s) == IF s = <<>> THEN <<>> ELSE Insert(Head(s), Sorted(Tail(s)))

\* scipy.stats.mstats.mquantiles(data, prob=[p], alphap=1/3, betap=1/3) as
\* lines 252-257 call it, for non-empty data: with m = alphap + p * (1 -
\* alphap - betap) and aleph = n * p + m, k = floor(clip(aleph, 1, n - 1)),
\* gamma = clip(aleph - k, 0, 1), the result is (1 - gamma) * x[k - 1] +
\* gamma * x[k] over the sorted data x (indices from 0, -1 the last).
mquantile(data, p) ==
    LET x     == Sorted(data)
        n     == Len(data)
        third == Q(1, 3)
        m     == QAdd(third, QMul(p, third))
        aleph == QAdd(QMul(QInt(n), p), m)
        kk    == QFloor(QClip(aleph, QInt(1), QInt(n - 1)))
        gamma == QClip(QSub(aleph, QInt(kk)), QInt(0), QInt(1))
        lo    == IF kk = 0 THEN x[n] ELSE x[kk]
        hi    == x[kk + 1]
    IN  QAdd(QMul(QSub(QInt(1), gamma), QInt(lo)), QMul(gamma, QInt(hi)))

Probs == << Q(1, 2), Q(4, 5), Q(9, 10), Q(19, 20), Q(99, 100) >>
quantile_names == << "Latency50thPercentile", "Latency80thPercentile",
                     "Latency90thPercentile", "Latency95thPercentile",
                     "Latency99thPercentile" >>

\* total / wall time unless the wall time is 0.
per_wall_time_nonzero(total, wall) ==
    IF wall.num # 0 THEN QDiv(QInt(total), wall) ELSE QInt(total)

\* total / wall time, or the total when the wall time is not positive
\* (lines 177-179, 194-196, 211-213, 228-230).
per_wall_time(total, wall) ==
    IF QLess(QInt(0), wall) THEN QDiv(QInt(total), wall) ELSE QInt(total)

\* total / operations, or 0 without operations (lines 147, 162).
per_operation(total, ops) == IF ops > 0 THEN Q(total, ops) ELSE QInt(0)

average_latency(c) ==
    Statistic("AverageLatency",
              per_operation(c._duration_total, c._operations_total), 3, FALSE)
average_size(c) ==
    Statistic("AverageSize",
              per_operation(c._size_total, c._operations_total), 3, FALSE)
\* OperationThroughput at the version before the wall time changed.
operation_throughput_v4(c) ==
    Statistic("OperationThroughput",
              per_wall_time(c._operations_total, c._wall_time_total), 4, FALSE)

operation_throughput(c) ==
    Statistic("OperationThroughput",
              per_wall_time(c._operations_total, c._wall_time_total), 5, FALSE)
document_throughput(c) ==
    Statistic("DocumentThroughput",
              per_wall_time(c._documents_total, c._wall_time_total), 1, FALSE)
error_rate(c) ==
    Statistic("ErrorRate",
              per_wall_time(c._errors_total, c._wall_time_total), 5, FALSE)
size_throughput(c) ==
    Statistic("SizeThroughput",
              per_wall_time(c._size_total, c._wall_time_total), 5, FALSE)
\* The quantiles without the test of line 251: mquantiles of no data gives
\* masked entries, written here as 0/0.
latency_quantiles_unguarded(c) ==
    [j \in 1..5 |->
        Statistic(quantile_names[j],
                  IF Len(c._extracted_durations) > 0
                  THEN mquantile(c._extracted_durations, Probs[j])
                  ELSE [num |-> 0, den |-> 0],
                  4, FALSE)]

latency_quantiles(c) ==
    [j \in 1..5 |->
        Statistic(quantile_names[j],
                  IF Len(c._extracted_durations) > 0
                  THEN mquantile(c._extracted_durations, Probs[j])
                  ELSE QInt(0),
                  4, FALSE)]
workers_min(c) == Statistic("WorkersMin", QInt(c._gauges_workers_min), 3, FALSE)
workers_max(c) == Statistic("WorkersMax", QInt(c._gauges_workers_max), 3, FALSE)
latency_min(c) ==
    Statistic("LatencyMin",
              QInt(IF Len(c._extracted_durations) > 0 THEN c._min_duration ELSE 0),
              4, FALSE)
latency_max(c) ==
    Statistic("LatencyMax",
              QInt(IF Len(c._extracted_durations) > 0 THEN c._max_duration ELSE 0),
              4, FALSE)
\* DurationTotal as the sum of the durations, which the comment of lines
\* 331-332 says the code does not use.
duration_total_sum(c) ==
    Statistic("DurationTotal", QInt(c._duration_total), 5, FALSE)

duration_total(c) ==
    Statistic("DurationTotal",
              QMul(c._wall_time_total, QInt(TO_NANOSECONDS)), 5, FALSE)
errors_total(c) == Statistic("ErrorsTotal", QInt(c._errors_total), 3, FALSE)
operations_total(c) ==
    Statistic("OperationsTotal", QInt(c._operations_total), 3, FALSE)
documents_total(c) ==
    Statistic("DocumentsTotal", QInt(c._documents_total), 0, FALSE)
size_total(c) == Statistic("SizeTotal", QInt(c._size_total), 3, FALSE)
overhead_total(c) ==
    Statistic("OverheadTotal", QInt(c._timers_total - c._duration_total), 1, FALSE)

\* The list all_statistics returns (lines 118-135), once _process is done.
\* The list with the quantiles ahead of the totals.
statistics_list_quantiles_first(c) ==
    << average_latency(c), average_size(c), operation_throughput(c),
       document_throughput(c), error_rate(c), size_throughput(c),
       workers_min(c), workers_max(c), latency_min(c), latency_max(c) >>
    \o latency_quantiles(c)
    \o << duration_total(c), errors_total(c), operations_total(c),
          documents_total(c), size_total(c), overhead_total(c) >>

statistics_list(c) ==
    << average_latency(c), average_size(c), operation_throughput(c),
       document_throughput(c), error_rate(c), size_throughput(c),
       workers_min(c), workers_max(c), latency_min(c), latency_max(c),
       duration_total(c), errors_total(c), operations_total(c),
       documents_total(c), size_total(c), overhead_total(c) >>
    \o latency_quantiles(c)

\* The properties of the class by name; latency_quantiles is a list.
PropertyNames ==
    {"average_latency", "average_size", "operation_throughput",
     "document_throughput", "error_rate", "size_throughput", "workers_min",
     "workers_max", "latency_min", "latency_max", "duration_total",
     "errors_total", "operations_total", "documents_total", "size_total",
     "overhead_total", "latency_quantiles"}

property(name, c) ==
    CASE name = "average_latency"      -> << average_latency(c) >>
      [] name = "average_size"         -> << average_size(c) >>
      [] name = "operation_throughput" -> << operation_throughput(c) >>
      [] name = "document_throughput"  -> << document_throughput(c) >>
      [] name = "error_rate"           -> << error_rate(c) >>
      [] name = "size_throughput"      -> << size_throughput(c) >>
      [] name = "workers_min"          -> << workers_min(c) >>
      [] name = "workers_max"          -> << workers_max(c) >>
      [] name = "latency_min"          -> << latency_min(c) >>
      [] name = "latency_max"          -> << latency_max(c) >>
      [] name = "duration_total"       -> << duration_total(c) >>
      [] name = "errors_total"         -> << errors_total(c) >>
      [] name = "operations_total"     -> << operations_total(c) >>
      [] name = "documents_total"      -> << documents_total(c) >>
      [] name = "size_total"           -> << size_total(c) >>
      [] name = "overhead_total"       -> << overhead_total(c) >>
      [] name = "latency_quantiles"    -> latency_quantiles(c)

(***************************************************************************)
(* State.                                                                  *)
(***************************************************************************)
VARIABLES
    impl,        \* "decode_iter" (decode.py), "ftdc_bytes", "ftdc_iter" (FTDC)
    stream,      \* the envelopes of the input
    blocks,      \* sizes of the byte blocks the source delivers, in order
    memory,      \* FTDC.memory
    pc,          \* position of the iterating code; "gen" while getftdc runs
    ret,         \* where __iter__ continues when getftdc yields
    gpc,         \* position of getftdc / _decode_chunk
    envIdx,      \* the envelope at the head of the frame (decode_iter: next doc)
    fed,         \* bytes put into the frame so far
    nextBlock,   \* index of the next block of the source
    more,        \* __iter__'s flag
    item,        \* the tuple last yielded by getftdc
    cur,         \* the chunk envelope being decoded
    metrics,     \* decode.py metrics; FTDC metrics_init
    ftdc_record, \* FTDC ftdc_record
    col, k,      \* column being filled, deltas of it filled so far
    at,          \* cursor into the varint bytes (1-based)
    zero_count,  \* decode.py zero_count, FTDC nzeroes
    log,         \* one entry per filled delta slot, in fill order
    i,           \* index of the next sample of the chunk to yield
    out,         \* samples delivered to the consumer
    outChunk,    \* per delivered sample, the index of its envelope
    err,         \* the exception that ended the iteration, "" if none
    records,     \* rollup: the records of _ftdc_data
    source,      \* rollup: "list" (iterable again) or "iterator" (one pass)
    rpos,        \* rollup: the next record an iterator source delivers
    cps,         \* rollup: the fields of the ClientPerformanceStatistics
    prop_result, \* rollup: what the last property query returned
    all_result,  \* rollup: what the last all_statistics query returned
    calls,       \* rollup: queries made so far
    call_in,     \* a single call of a function: its arguments
    call_out     \* a single call of a function: what it returned

vars == << impl, stream, blocks, memory, pc, ret, gpc, envIdx, fed, nextBlock,
           more, item, cur, metrics, ftdc_record, col, k, at, zero_count, log,
           i, out, outChunk, err,
           records, source, rpos, cps, prop_result, all_result, calls,
           call_in, call_out >>

callVars == << call_in, call_out >>
rollupVars == << records, source, rpos, cps, prop_result, all_result, calls >>
\* What decoding never changes: its input, and the rollup.
inputVars == << impl, stream, blocks, rollupVars, callVars >>
chunkVars == << cur, metrics, ftdc_record, col, k, at, zero_count, log, i >>
iterVars  == << memory, ret, nextBlock, more >>

NoItem == [has |-> FALSE, x |-> <<>>, doc_len |-> None, buf |-> 0]

InitRest ==
    /\ pc = "start" /\ ret = "" /\ gpc = "read"
    /\ envIdx = 1 /\ fed = 0 /\ nextBlock = 1 /\ more = TRUE
    /\ item = NoItem /\ cur = MetaEnv
    /\ metrics = <<>> /\ ftdc_record = <<>>
    /\ col = 1 /\ k = 0 /\ at = 1 /\ zero_count = 0 /\ log = <<>> /\ i = 1
    /\ out = <<>> /\ outChunk = <<>> /\ err = ""

NoResult == [query |-> "", raised |-> FALSE, value |-> <<>>]

NoCall == [fn |-> ""]

\* No single function call is made.
CallIdle == call_in = NoCall /\ call_out = NoCall

\* A rollup over no records that was never queried.
RollupIdle ==
    /\ records = <<>> /\ source = "list" /\ rpos = 1
    /\ cps = NewStatistics
    /\ prop_result = NoResult /\ all_result = NoResult /\ calls = 0

\* One chunk, any enumerated payload, both chunk decoders.
InitChunk ==
    /\ RollupIdle /\ CallIdle
    /\ impl \in {"decode_iter", "ftdc_bytes"}
    /\ \E p \in RichPayloads : stream = << ChunkEnv(p, 40) >>
    /\ blocks = << TotalLen(stream) >>
    /\ memory = None
    /\ InitRest

\* Streams of catalogued envelopes; the bytes may stop inside the last
\* envelope and, for an Iterator source, arrive in blocks.
InitStream ==
    /\ RollupIdle /\ CallIdle
    /\ stream \in SeqsUpTo(EnvCatalog, MaxEnvs)
    /\ \/ /\ impl = "decode_iter"
          /\ blocks = << TotalLen(stream) >>
          /\ memory = None
       \/ /\ impl = "ftdc_bytes"
          /\ \E e \in RawLens(stream) : blocks = << e >>
          /\ memory = None
       \/ /\ impl = "ftdc_iter"
          /\ \E e \in RawLens(stream) : blocks \in Partitions(stream, e)
          /\ memory \in MemoryChoices
    /\ InitRest

Init == InitChunk \/ InitStream

Fail(e) == /\ err' = e
           /\ pc' = "error"

FrameLen == fed - StartOf(stream, envIdx)

(***************************************************************************)
(* decode.py decode_iter and _iter_chunk.                                  *)
(***************************************************************************)
Emit(x, e, n) ==
    /\ out' = Append(out, x)
    /\ outChunk' = Append(outChunk, [env |-> e, idx |-> n])

\* Lines 51-52 and 65-92: the next document of bson.decode_iter, the
\* reference document, the metric_count check, delta_count.
\* A chunk that starts with the counter the previous chunk left.
zero_count_init_kept(zc) == zc

\* decode.py line 92 (zero_count = 0) and ftdc_decoder.py line 311
\* (nzeroes = 0): the counter a chunk starts with.
zero_count_init(zc) == 0

iter_chunk_header ==
    /\ impl = "decode_iter"
    /\ pc \in {"start", "d_next"}
    /\ UNCHANGED << inputVars, iterVars, gpc, fed, item, ftdc_record, out, outChunk >>
    /\ IF envIdx > Len(stream)
       THEN /\ pc' = "done"
            /\ UNCHANGED << envIdx, cur, metrics, col, k, at, zero_count, log, i, err >>
       ELSE LET e  == stream[envIdx]
                ms == get_metrics_from_ref_doc(e.payload.ref)
            IN  /\ envIdx' = envIdx + 1
                /\ cur' = e
                /\ col' = 1 /\ k' = 0 /\ at' = 1
                /\ zero_count' = zero_count_init(zero_count)
                /\ log' = <<>> /\ i' = 1
                /\ IF ~e.hasData
                   THEN Fail("KeyError") /\ UNCHANGED metrics
                   ELSE IF \E j \in 1..Len(ms) : ms[j].kind = "unknown"
                   THEN Fail("ValueError: unknown type") /\ UNCHANGED metrics
                   ELSE IF e.payload.mc # Len(ms)
                   THEN Fail("ValueError: metrics mismatch") /\ UNCHANGED metrics
                   ELSE /\ metrics' = ms
                        /\ err' = err
                        /\ pc' = IF Len(ms) > 0 /\ e.payload.dc > 0
                                 THEN "d_fill" ELSE "d_check"

\* What reading one delta slot does to the cursor and the zero counter
\* (lines 97-103).
decode_slot(data, pos, zc) ==
    IF zc # 0
    THEN [delta |-> 0, at |-> pos, zero |-> zc - 1, read |-> FALSE,
          marker |-> FALSE]
    ELSE LET d == decode_varint(data, pos)
             r == decode_varint(data, d.at)
         IN  IF d.res = 0
             THEN [delta |-> 0, at |-> r.at, zero |-> r.res, read |-> TRUE,
                   marker |-> TRUE]
             ELSE [delta |-> d.res, at |-> d.at, zero |-> zc, read |-> TRUE,
                   marker |-> FALSE]

\* A fill that starts every column with no pending zeroes.
column_carry_reset(zc) == 0

\* The zero counter a column starts with: the one the previous column left.
column_carry(zc) == zc

LogEntry(s) == [read |-> s.read, marker |-> s.marker, delta |-> s.delta,
                run |-> s.zero, at |-> s.at]

\* Lines 93-106, one delta slot per step.
iter_chunk_fill ==
    /\ impl = "decode_iter"
    /\ pc = "d_fill"
    /\ LET m    == metrics[col]
           s    == decode_slot(cur.payload.data, at, zero_count)
           last == k + 1 = cur.payload.dc
       IN  /\ metrics' = [metrics EXCEPT ![col].values =
                             Append(@, add_delta(@[Len(@)], m.kind, s.delta))]
           /\ at' = s.at
           /\ zero_count' = IF last THEN column_carry(s.zero) ELSE s.zero
           /\ log' = Append(log, LogEntry(s))
           /\ k' = IF last THEN 0 ELSE k + 1
           /\ col' = IF last THEN col + 1 ELSE col
           /\ pc' = IF last /\ col = Len(metrics) THEN "d_check" ELSE "d_fill"
    /\ UNCHANGED << inputVars, iterVars, gpc, envIdx, fed, item, cur,
                    ftdc_record, i, out, outChunk, err >>

\* Lines 108-114: bson_data.read() must be empty; then the sample loop
\* starts by evaluating len(metrics[0].values).
trailing_bytes(data, pos) == pos <= Len(data)

\* range(len(metrics[0].values)), line 114: how many samples are yielded and
\* which one is the n-th.
sample_count(ms) == Len(ms[1].values)

\* A sample loop that runs from the last sample to the first.
sample_index_reversed(n, count) == count + 1 - n

sample_index(n, count) == n

iter_chunk_check ==
    /\ impl = "decode_iter"
    /\ pc = "d_check"
    /\ IF trailing_bytes(cur.payload.data, at)
       THEN Fail("ValueError: extra deltas")
       ELSE IF metrics = <<>>
       THEN Fail("IndexError")
       ELSE /\ pc' = IF sample_count(metrics) > 0 THEN "d_yield" ELSE "d_next"
            /\ err' = err
    /\ UNCHANGED << inputVars, iterVars, chunkVars, gpc, envIdx, fed, item,
                    out, outChunk >>

\* Lines 114-125: one sample per step.
iter_chunk_yield ==
    /\ impl = "decode_iter"
    /\ pc = "d_yield"
    /\ LET n == sample_index(i, sample_count(metrics))
       IN  Emit(BuildDoc(metrics, n, <<>>), envIdx - 1, n - 1)
    /\ i' = i + 1
    /\ pc' = IF i >= sample_count(metrics) THEN "d_next" ELSE "d_yield"
    /\ UNCHANGED << inputVars, iterVars, gpc, envIdx, fed, item, cur, metrics,
                    ftdc_record, col, k, at, zero_count, log, err >>

(***************************************************************************)
(* ftdc_decoder.py getftdc and _decode_chunk: the generator.  It runs      *)
(* while pc = "gen"; a yield hands item to __iter__ at ret.                *)
(***************************************************************************)
Yield(has, x, dl, b) ==
    /\ item' = [has |-> has, x |-> x, doc_len |-> dl, buf |-> b]
    /\ pc' = ret

\* The branch getftdc takes for the document _read_bson_doc returned
\* (lines 161-177): "chunk", or "else" for the yield of (None, None, buf).
\* The test "bson_len" in chunk_doc looks the str up among the document's
\* keys, which are bytes, so the elif branch is never taken.
getftdc_branch(complete, type) ==
    IF complete /\ type = CHUNK_TYPE THEN "chunk" ELSE "else"

\* Lines 160-177 with _read_bson_doc lines 182-189.
getftdc_read ==
    /\ pc = "gen" /\ gpc = "read"
    /\ LET complete == /\ FrameLen >= LEN_PREFIX
                       /\ FrameLen >= stream[envIdx].len
           e        == stream[envIdx]
           br       == getftdc_branch(complete, IF complete THEN e.type ELSE None)
       IN  /\ envIdx' = IF complete THEN envIdx + 1 ELSE envIdx
           /\ cur' = IF complete THEN e ELSE cur
           /\ gpc' = br
           /\ IF br = "chunk"
              THEN UNCHANGED << item, pc >>
              ELSE Yield(FALSE, <<>>, None,
                         IF complete THEN FrameLen - e.len ELSE FrameLen)
    /\ UNCHANGED << inputVars, iterVars, fed, metrics, ftdc_record, col, k, at,
                    zero_count, log, i, out, outChunk, err >>

\* _decode_chunk lines 261-314, up to the yield of metrics_init.
decode_chunk_header ==
    /\ pc = "gen" /\ gpc = "chunk"
    /\ LET mi == extract_keys(read_bson_doc_ftdc(cur.payload.ref), <<>>)
       IN  /\ metrics' = mi
           /\ ftdc_record' = <<>>
           /\ col' = 1 /\ k' = 0 /\ at' = 1
           /\ zero_count' = zero_count_init(zero_count)
           /\ log' = <<>> /\ i' = 1
           /\ IF ~cur.hasData
              THEN Fail("KeyError") /\ UNCHANGED << item, gpc >>
              ELSE IF Len(mi) = 0
              THEN gpc' = "read" /\ UNCHANGED << item, pc, err >>
              ELSE IF cur.payload.mc # Len(mi)
              THEN Fail("RuntimeError: bad chunk") /\ UNCHANGED << item, gpc >>
              ELSE /\ Yield(TRUE, mi, cur.len, FrameLen)
                   /\ gpc' = IF cur.payload.dc > 0 THEN "fill" ELSE "records"
                   /\ err' = err
    /\ UNCHANGED << inputVars, iterVars, envIdx, fed, cur, out, outChunk >>

\* Lines 318-324 for one delta slot; ok is FALSE when unpack indexes past
\* the end of the data (IndexError).
unpack_slot(data, pos, nz) ==
    IF nz # 0
    THEN [delta |-> 0, at |-> pos, zero |-> nz - 1, read |-> FALSE,
          marker |-> FALSE, ok |-> TRUE]
    ELSE LET d == unpack(data, pos)
             r == unpack(data, d.at)
         IN  IF ~d.ok
             THEN [delta |-> 0, at |-> d.at, zero |-> nz, read |-> TRUE,
                   marker |-> FALSE, ok |-> FALSE]
             ELSE IF d.res = 0
             THEN [delta |-> 0, at |-> r.at, zero |-> r.res, read |-> TRUE,
                   marker |-> TRUE, ok |-> r.ok]
             ELSE [delta |-> d.res, at |-> d.at, zero |-> nz, read |-> TRUE,
                   marker |-> FALSE, ok |-> TRUE]

nzeroes_carry(nz) == nz

\* Lines 315-328, one delta slot per step.
decode_chunk_fill ==
    /\ pc = "gen" /\ gpc = "fill"
    /\ LET s     == unpack_slot(cur.payload.data, at, zero_count)
           value == IF k = 0 THEN metrics[col].v ELSE ftdc_record[k][col].v
           last  == k + 1 = cur.payload.dc
           entry == [k |-> metrics[col].k, v |-> value + s.delta]
       IN  IF ~s.ok
           THEN /\ Fail("IndexError")
                /\ UNCHANGED << ftdc_record, col, k, at, zero_count, log, gpc >>
           ELSE /\ ftdc_record' =
                     IF k + 1 > Len(ftdc_record)
                     THEN Append(ftdc_record, << entry >>)
                     ELSE [ftdc_record EXCEPT ![k + 1] = Append(@, entry)]
                /\ at' = s.at
                /\ zero_count' = IF last THEN nzeroes_carry(s.zero) ELSE s.zero
                /\ log' = Append(log, LogEntry(s))
                /\ k' = IF last THEN 0 ELSE k + 1
                /\ col' = IF last THEN col + 1 ELSE col
                /\ gpc' = IF last /\ col = Len(metrics) THEN "records" ELSE "fill"
                /\ UNCHANGED << pc, err >>
    /\ UNCHANGED << inputVars, iterVars, envIdx, fed, item, cur, metrics, i,
                    out, outChunk >>

\* Lines 330-331: the next value of ftdc_record, or the end of the chunk
\* and back to the top of getftdc's loop.
decode_chunk_records ==
    /\ pc = "gen" /\ gpc = "records"
    /\ IF i <= Len(ftdc_record)
       THEN /\ Yield(TRUE, ftdc_record[i], cur.len, FrameLen)
            /\ i' = i + 1
            /\ gpc' = gpc
       ELSE /\ gpc' = "read"
            /\ UNCHANGED << item, pc, i >>
    /\ UNCHANGED << inputVars, iterVars, envIdx, fed, cur, metrics, ftdc_record,
                    col, k, at, zero_count, log, out, outChunk, err >>

(***************************************************************************)
(* ftdc_decoder.py FTDC.__iter__.                                          *)
(***************************************************************************)
\* next(gen) (b = None) or gen.send(block of b bytes), continuing at r when
\* the generator yields.  A generator suspended at the yield of getftdc's
\* last two branches ends when it is resumed with None (lines 170-177).
Resume(b, r) ==
    /\ fed' = IF b = None THEN fed ELSE fed + b
    /\ IF gpc = "else" /\ b = None
       THEN pc' = "done" /\ UNCHANGED << gpc, ret >>
       ELSE /\ gpc' = IF gpc = "else" THEN "read" ELSE gpc
            /\ pc' = "gen"
            /\ ret' = r

EmitItem ==
    IF item.has
    THEN Emit(item.x, envIdx - 1, i - 1)
    ELSE UNCHANGED << out, outChunk >>

SourceExhausted == nextBlock > Len(blocks)

\* gen.send(next(self.raw)) for a source that has a next block.
SendNext(r) ==
    /\ Resume(blocks[nextBlock], r)
    /\ nextBlock' = nextBlock + 1

\* Lines 106-108 for bytes, 111-115 for an Iterator: the first block goes
\* into the frame.  next() of an exhausted source raises StopIteration,
\* which a generator body turns into RuntimeError.
iter_start ==
    /\ impl \in {"ftdc_bytes", "ftdc_iter"}
    /\ pc = "start"
    /\ IF SourceExhausted
       THEN Fail("RuntimeError: StopIteration") /\ UNCHANGED << fed, nextBlock >>
       ELSE /\ fed' = blocks[1]
            /\ nextBlock' = 2
            /\ pc' = IF impl = "ftdc_bytes" THEN "b108" ELSE "i115"
            /\ err' = err
    /\ UNCHANGED << inputVars, chunkVars, memory, ret, more, gpc, envIdx, item,
                    out, outChunk >>

\* Line 108 and line 115: the for statement asks the generator for its next
\* tuple.
iter_for ==
    /\ pc \in {"b108", "i115"}
    /\ Resume(None, IF pc = "b108" THEN "b109" ELSE "i116")
    /\ UNCHANGED << inputVars, chunkVars, memory, nextBlock, more, envIdx, item,
                    out, outChunk, err >>

\* Lines 109-110 and 116-117.
iter_yield ==
    /\ pc \in {"b109", "i116"}
    /\ EmitItem
    /\ pc' = IF pc = "b109" THEN "b108" ELSE "i118"
    /\ UNCHANGED << inputVars, chunkVars, iterVars, gpc, envIdx, fed, item, err >>

\* Lines 118-122: without a memory bound, take 5 x the document length, or
\* feed the next block until a document length is known.
iter_memory ==
    /\ pc = "i118"
    /\ IF memory # None
       THEN /\ pc' = "i125"
            /\ UNCHANGED << memory, ret, gpc, fed, nextBlock, err >>
       ELSE IF item.doc_len # None
       THEN /\ memory' = MEMORY_FACTOR * item.doc_len
            /\ pc' = "i125"
            /\ UNCHANGED << ret, gpc, fed, nextBlock, err >>
       ELSE IF SourceExhausted
       THEN /\ Fail("RuntimeError: StopIteration")
            /\ UNCHANGED << memory, ret, gpc, fed, nextBlock >>
       ELSE /\ SendNext("i123")
            /\ UNCHANGED << memory, err >>
    /\ UNCHANGED << inputVars, chunkVars, more, envIdx, item, out, outChunk >>

\* Lines 123-124.
iter_memory_yield ==
    /\ pc = "i123"
    /\ EmitItem
    /\ pc' = "i118"
    /\ UNCHANGED << inputVars, chunkVars, iterVars, gpc, envIdx, fed, item, err >>

\* Whether a document of doc_len bytes is refused under the bound
\* (line 125).
over_budget(doc_len, mem) == doc_len # None /\ mem < doc_len

\* Lines 125-131: the bound check, then the first send of the try block.
iter_check ==
    /\ pc = "i125"
    /\ IF over_budget(item.doc_len, memory)
       THEN /\ Fail("Exception: too large")
            /\ UNCHANGED << ret, gpc, fed, nextBlock, more >>
       ELSE IF more /\ (item.doc_len = None \/ item.buf < memory)
       THEN IF SourceExhausted
            THEN /\ more' = FALSE
                 /\ pc' = "i115"
                 /\ UNCHANGED << ret, gpc, fed, nextBlock, err >>
            ELSE /\ SendNext("i132")
                 /\ UNCHANGED << more, err >>
       ELSE /\ pc' = "i115"
            /\ UNCHANGED << ret, gpc, fed, nextBlock, more, err >>
    /\ UNCHANGED << inputVars, chunkVars, memory, envIdx, item, out, outChunk >>

\* Lines 132-139: yield what the send returned and keep feeding blocks
\* while the frame holds less than the bound.
iter_feed ==
    /\ pc = "i132"
    /\ EmitItem
    /\ IF item.buf < memory
       THEN IF SourceExhausted
            THEN /\ more' = FALSE
                 /\ pc' = "i115"
                 /\ UNCHANGED << ret, gpc, fed, nextBlock >>
            ELSE /\ SendNext("i132")
                 /\ UNCHANGED more
       ELSE /\ pc' = "i115"
            /\ UNCHANGED << ret, gpc, fed, nextBlock, more >>
    /\ UNCHANGED << inputVars, chunkVars, memory, envIdx, item, err >>

Next ==
    \/ iter_chunk_header
    \/ iter_chunk_fill
    \/ iter_chunk_check
    \/ iter_chunk_yield
    \/ getftdc_read
    \/ decode_chunk_header
    \/ decode_chunk_fill
    \/ decode_chunk_records
    \/ iter_start
    \/ iter_for
    \/ iter_yield
    \/ iter_memory
    \/ iter_memory_yield
    \/ iter_check
    \/ iter_feed

Spec == Init /\ [][Next]_vars

(***************************************************************************)
(* rollups/client_perf.py ClientPerformanceStatistics: a rollup over a     *)
(* sequence of records, queried through all_statistics and through the     *)
(* single properties.  Only all_statistics runs _process.                  *)
(***************************************************************************)
decoderVarsOnly == << impl, stream, blocks, memory, pc, ret, gpc, envIdx,
                      fed, nextBlock, more, item, cur, metrics, ftdc_record,
                      col, k, at, zero_count, log, i, out, outChunk, err >>
decoderVars == << decoderVarsOnly, callVars >>

RollupInit ==
    /\ CallIdle
    /\ impl = "rollup" /\ stream = <<>> /\ blocks = <<>> /\ memory = None
    /\ InitRest
    /\ records \in SeqsUpTo(RecordCatalog, MaxRecords)
    /\ source \in {"list", "iterator"}
    /\ rpos = 1
    /\ cps = NewStatistics
    /\ prop_result = NoResult /\ all_result = NoResult /\ calls = 0

\* Lines 110-135.  for record in self._ftdc_data starts a list again from
\* its first record and continues an iterator where it stopped.  When
\* _process raises ValueError (line 107) no list is returned.
all_statistics ==
    /\ impl = "rollup" /\ calls < MaxQueries
    /\ LET r == process(cps, records, IF source = "list" THEN 1 ELSE rpos)
       IN  /\ cps' = r.c
           /\ rpos' = IF source = "list" THEN rpos ELSE r.next
           /\ all_result' = [query |-> "all_statistics", raised |-> r.raised,
                             value |-> IF r.raised THEN <<>>
                                       ELSE statistics_list(r.c)]
    /\ records' = IF cps._processed THEN records
                  ELSE input_after(cps, 0, records,
                                   IF source = "list" THEN 1 ELSE rpos)
    /\ calls' = calls + 1
    /\ UNCHANGED << decoderVars, source, prop_result >>

\* Lines 137-413: one of the properties, read from the fields as they are.
property_query ==
    /\ impl = "rollup" /\ calls < MaxQueries
    /\ \E name \in PropertyNames :
          prop_result' = [query |-> name, raised |-> FALSE,
                          value |-> property(name, cps)]
    /\ calls' = calls + 1
    /\ UNCHANGED << decoderVars, records, source, rpos, cps, all_result >>

RollupNext == all_statistics \/ property_query

RollupSpec == RollupInit /\ [][RollupNext]_vars

(***************************************************************************)
(* The wire format, as a yardstick for the decoders: the delta slots of a  *)
(* payload in column-major order after zero-run expansion, or what is      *)
(* wrong with its varint bytes.                                            *)
(***************************************************************************)
WireVarint(data, pos) ==
    LET r == UnpackDigits(data, pos, <<>>)
    IN  [ok |-> r.ok, val |-> IF r.ok THEN Signed64(r.digits) ELSE 0, next |-> r.at]

RECURSIVE Expand(_, _, _, _, _)
Expand(data, pos, n, pending, acc) ==
    IF n = 0
    THEN [status |-> IF pos <= Len(data) THEN "trailing" ELSE "ok",
          deltas |-> acc, pending |-> pending]
    ELSE IF pending > 0
    THEN Expand(data, pos, n - 1, pending - 1, Append(acc, 0))
    ELSE LET d == WireVarint(data, pos)
             r == WireVarint(data, d.next)
         IN  IF ~d.ok
             THEN [status |-> "truncated", deltas |-> acc, pending |-> 0]
             ELSE IF d.val # 0
             THEN Expand(data, d.next, n - 1, 0, Append(acc, d.val))
             ELSE IF ~r.ok
             THEN [status |-> "truncated", deltas |-> acc, pending |-> 0]
             ELSE IF r.val < 0
             THEN [status |-> "negative run", deltas |-> acc, pending |-> 0]
             ELSE Expand(data, r.next, n - 1, r.val, Append(acc, 0))

\* The metric leaves of a reference document: its int32, int64, double,
\* bool and datetime leaves in pre-order, with their key paths.
MetricTypes == {BSON_DOUBLE, BSON_INT32, BSON_INT64, BSON_BOOL, BSON_DATETIME}

RECURSIVE RefLeaves(_, _)
RefLeaves(d, prefix) ==
    IF d = <<>> THEN <<>>
    ELSE (CASE Head(d).bt \in {BSON_SUBDOC, BSON_ARRAY}
                 -> RefLeaves(Head(d).sub, Append(prefix, Head(d).key))
            [] Head(d).bt \in MetricTypes
                 -> << [k |-> Append(prefix, Head(d).key), v |-> Head(d).val] >>
            [] OTHER -> <<>>)
         \o RefLeaves(Tail(d), prefix)

Wire(p) == Expand(p.data, 1, p.dc * Len(RefLeaves(p.ref, <<>>)), 0, <<>>)

WellFormed(p) ==
    /\ Len(RefLeaves(p.ref, <<>>)) >= 1
    /\ p.mc = Len(RefLeaves(p.ref, <<>>))
    /\ Wire(p).status = "ok"

\* The leaves of a delivered sample as (key path, value) pairs: decode.py
\* delivers a nested document, FTDC a mapping from key paths to values.
RECURSIVE DocLeaves(_, _)
DocLeaves(d, prefix) ==
    IF d = <<>> THEN <<>>
    ELSE (IF Head(d).ty = "doc"
          THEN DocLeaves(Head(d).sub, Append(prefix, Head(d).key))
          ELSE << [k |-> Append(prefix, Head(d).key), v |-> Head(d).v] >>)
         \o DocLeaves(Tail(d), prefix)

SampleLeaves(x) == IF impl = "decode_iter" THEN DocLeaves(x, <<>>) ELSE x

Paths(ls) == { ls[j].k : j \in 1..Len(ls) }

IsChunk(e) == e \in 1..Len(stream) /\ stream[e].type = CHUNK_TYPE

\* The decoder is inside the chunk at envelope envIdx - 1.
InChunk ==
    IF impl = "decode_iter"
    THEN pc \in {"d_fill", "d_check", "d_yield"}
    ELSE gpc \in {"chunk", "fill", "records"}

\* The decoder has finished chunk e without an error.
Passed(e) ==
    /\ IsChunk(e)
    /\ \/ e < envIdx - 1
       \/ e = envIdx - 1 /\ ~InChunk /\ pc # "error"

DecodeErrors == {"KeyError", "ValueError: unknown type",
                 "ValueError: metrics mismatch", "ValueError: extra deltas",
                 "IndexError", "RuntimeError: bad chunk"}

\* Decoding chunk e has raised an error.
ChunkFailed(e) ==
    /\ IsChunk(e) /\ e = envIdx - 1
    /\ pc = "error" /\ err \in DecodeErrors

SamplesOf(e) == { j \in 1..Len(out) : outChunk[j].env = e }

(***************************************************************************)
(* C1: a well-formed chunk with metric_count = M >= 1 and delta_count = D  *)
(* decodes without error to exactly D + 1 samples, each with exactly M     *)
(* leaves, one at each key path of the reference document's leaves.        *)
(***************************************************************************)
C1_RoundTripCount ==
    \A e \in 1..Len(stream) :
        IsChunk(e) /\ WellFormed(stream[e].payload) =>
            LET p  == stream[e].payload
                rl == RefLeaves(p.ref, <<>>)
            IN  /\ ~ChunkFailed(e)
                /\ Passed(e) => Cardinality(SamplesOf(e)) = p.dc + 1
                /\ \A j \in SamplesOf(e) :
                      /\ Len(SampleLeaves(out[j])) = p.mc
                      /\ Paths(SampleLeaves(out[j])) = Paths(rl)

(***************************************************************************)
(* C2: in every sample of a well-formed chunk, the leaf of column c at     *)
(* sample index n equals the reference value of c plus the sum of the      *)
(* first n expanded deltas of c (bool as 0/1, datetime as milliseconds).   *)
(***************************************************************************)
ColumnDeltas(p, c, n) ==
    [t \in 1..n |-> Wire(p).deltas[(c - 1) * p.dc + t]]

C2_Reconstruction ==
    \A j \in 1..Len(out) :
        LET p  == stream[outChunk[j].env].payload
            n  == outChunk[j].idx
            rl == RefLeaves(p.ref, <<>>)
            ls == SampleLeaves(out[j])
        IN  WellFormed(p) =>
                \A c \in 1..Len(rl) :
                    \E q \in 1..Len(ls) :
                        /\ ls[q].k = rl[c].k
                        /\ ls[q].v = rl[c].v + SumSeq(ColumnDeltas(p, c, n))

(***************************************************************************)
(* C3: after a zero delta with run length r >= 0 has been read, the next r *)
(* delta slots in column-major order are filled with delta 0 without       *)
(* moving the cursor, also across a column boundary, and the slot after    *)
(* them is read from the bytes again.                                      *)
(***************************************************************************)
C3_ZeroRun ==
    \A s \in 1..Len(log) :
        log[s].marker /\ log[s].run >= 0 =>
            /\ log[s].read /\ log[s].delta = 0
            /\ \A t \in (s + 1)..Len(log) :
                  /\ t <= s + log[s].run =>
                        /\ ~log[t].read
                        /\ log[t].delta = 0
                        /\ log[t].at = log[t - 1].at
                  /\ t = s + log[s].run + 1 => log[t].read

ColumnOfSlot(s) == ((s - 1) \div cur.payload.dc) + 1

C3_Witness ==
    \E s \in 1..Len(log) :
        /\ log[s].marker /\ log[s].run = 2
        /\ Len(log) >= s + 3
        /\ ColumnOfSlot(s) < ColumnOfSlot(s + 2)
        /\ ~log[s + 2].read /\ log[s + 3].read

(***************************************************************************)
(* C4: samples are delivered chunk by chunk in envelope order; within a    *)
(* chunk the reference sample comes first, then samples 1..delta_count in  *)
(* increasing order, and a chunk's samples are all delivered before the    *)
(* first sample of a later chunk.                                          *)
(***************************************************************************)
C4_SampleOrder ==
    \A j \in 1..Len(out) :
        LET a == outChunk[j]
        IN  /\ IsChunk(a.env)
            /\ a.idx \in 0..stream[a.env].payload.dc
            /\ j = 1 => a.idx = 0
            /\ j > 1 =>
                 LET b == outChunk[j - 1]
                 IN  \/ a.env = b.env /\ a.idx = b.idx + 1
                     \/ /\ a.env > b.env
                        /\ a.idx = 0
                        /\ b.idx = stream[b.env].payload.dc

C4_Witness ==
    /\ Len(out) >= 3
    /\ outChunk[1].env = 1 /\ outChunk[2] = [env |-> 1, idx |-> 1]
    /\ outChunk[3].env = 2

(***************************************************************************)
(* C5: non-chunk envelopes in a stream change nothing: with the whole      *)
(* stream delivered and every chunk well-formed, the iteration ends        *)
(* without error and every chunk's samples have been delivered.            *)
(***************************************************************************)
RawLen == SumSeq(blocks)
RawComplete == RawLen = TotalLen(stream)
BoundFits == memory = None \/ \A e \in 1..Len(stream) : stream[e].len <= memory
AllChunksWellFormed ==
    \A e \in 1..Len(stream) : IsChunk(e) => WellFormed(stream[e].payload)

C5_EnvelopeSkip ==
    ( /\ pc \in {"done", "error"}
      /\ RawComplete /\ BoundFits /\ AllChunksWellFormed
      /\ \E e \in 1..Len(stream) : ~IsChunk(e) )
    => /\ pc = "done"
       /\ \A e \in 1..Len(stream) :
             IsChunk(e) => Cardinality(SamplesOf(e)) = stream[e].payload.dc + 1

(***************************************************************************)
(* C6: a chunk whose metric_count differs from the number of metric leaves *)
(* of its reference document is never decoded without error and none of    *)
(* its samples is delivered.                                               *)
(***************************************************************************)
C6_SchemaMismatch ==
    \A e \in 1..Len(stream) :
        IsChunk(e) /\ stream[e].payload.mc # Len(RefLeaves(stream[e].payload.ref, <<>>))
            => SamplesOf(e) = {} /\ ~Passed(e)

(***************************************************************************)
(* C7: a chunk whose payload has bytes left after all delta slots are      *)
(* filled is never decoded without error.                                  *)
(***************************************************************************)
HeaderMatches(p) ==
    /\ Len(RefLeaves(p.ref, <<>>)) >= 1
    /\ p.mc = Len(RefLeaves(p.ref, <<>>))

C7_TrailingBytes ==
    \A e \in 1..Len(stream) :
        /\ IsChunk(e)
        /\ HeaderMatches(stream[e].payload)
        /\ Wire(stream[e].payload).status = "trailing"
        => ~Passed(e)

(***************************************************************************)
(* C8: a chunk whose payload ends before the terminator byte of a varint   *)
(* that a delta slot needs is never decoded without error.                 *)
(***************************************************************************)
C8_TruncatedVarint ==
    \A e \in 1..Len(stream) :
        /\ IsChunk(e)
        /\ HeaderMatches(stream[e].payload)
        /\ Wire(stream[e].payload).status = "truncated"
        => ~Passed(e)

(***************************************************************************)
(* C9: a chunk with no metric leaves and metric_count = 0 raises no error  *)
(* and delivers no sample, whatever its delta_count.                       *)
(***************************************************************************)
C9_EmptyChunk ==
    \A e \in 1..Len(stream) :
        /\ IsChunk(e)
        /\ RefLeaves(stream[e].payload.ref, <<>>) = <<>>
        /\ stream[e].payload.mc = 0
        /\ stream[e].payload.data = <<>>
        => ~ChunkFailed(e) /\ SamplesOf(e) = {}

(***************************************************************************)
(* C10: for FTDC over bytes or blocks, input that ends at an envelope      *)
(* boundary (zero bytes, no block at all) ends the iteration without       *)
(* error, and input that ends inside an envelope does not end it cleanly.  *)
(***************************************************************************)
C10_EndOfInput ==
    impl \in {"ftdc_bytes", "ftdc_iter"} =>
        /\ ( /\ RawComplete /\ BoundFits /\ AllChunksWellFormed
             /\ \A e \in 1..Len(stream) : IsChunk(e) )
           => pc # "error"
        /\ ~RawComplete => pc # "done"

(***************************************************************************)
(* C11: when chunks 1..k of a stream are well-formed and chunk k+1 is      *)
(* malformed (schema mismatch, truncated varint, trailing bytes), the      *)
(* iteration never ends cleanly, no sample of chunk k+1 is ever delivered  *)
(* (the error comes from the call that first needs chunk k+1), and when    *)
(* the error is raised every sample of chunks 1..k has been delivered.     *)
(***************************************************************************)
Malformed(p) ==
    \/ p.mc # Len(RefLeaves(p.ref, <<>>))
    \/ /\ HeaderMatches(p)
       /\ Wire(p).status \in {"truncated", "trailing"}

FirstMalformed(e) ==
    /\ IsChunk(e) /\ Malformed(stream[e].payload)
    /\ \A j \in 1..(e - 1) : IsChunk(j) /\ WellFormed(stream[j].payload)

C11_ErrorPropagation ==
    \A e \in 1..Len(stream) :
        FirstMalformed(e) /\ RawComplete /\ BoundFits =>
            /\ SamplesOf(e) = {}
            /\ pc # "done"
            /\ pc = "error" =>
                  \A j \in 1..(e - 1) :
                      Cardinality(SamplesOf(j)) = stream[j].payload.dc + 1

(***************************************************************************)
(* C12: with a memory bound in force, a chunk document whose declared      *)
(* length exceeds the bound is rejected by the streaming iterator: none of *)
(* its samples is delivered and the iteration does not get past it         *)
(* without an error.                                                       *)
(***************************************************************************)
Oversize(e) == IsChunk(e) /\ memory # None /\ stream[e].len > memory

C12_OverBudget ==
    impl = "ftdc_iter" =>
        \A e \in 1..Len(stream) :
            Oversize(e) => SamplesOf(e) = {} /\ ~Passed(e)

(***************************************************************************)
(* FTDC iteration over one bytes object, as a function of the input: the   *)
(* samples lines 106-110 deliver for the first n bytes of stream st, and   *)
(* whether the iteration ends in an exception.  getftdc stops at the first *)
(* document that is not a complete chunk, because the for statement        *)
(* resumes it with None.                                                   *)
(***************************************************************************)
RECURSIVE decode_chunk_deltas(_, _, _, _, _)
decode_chunk_deltas(data, n, pos, nz, acc) ==
    IF n = 0 THEN [ok |-> TRUE, deltas |-> acc]
    ELSE LET s == unpack_slot(data, pos, nz)
         IN  IF ~s.ok THEN [ok |-> FALSE, deltas |-> acc]
             ELSE decode_chunk_deltas(data, n - 1, s.at, s.zero,
                                      Append(acc, s.delta))

\* _decode_chunk as a whole: the samples it yields and whether it raises.
decode_chunk(p) ==
    LET mi == extract_keys(read_bson_doc_ftdc(p.ref), <<>>)
        f  == decode_chunk_deltas(p.data, Len(mi) * p.dc, 1, 0, <<>>)
        record(t) ==
            [c \in 1..Len(mi) |->
                [k |-> mi[c].k,
                 v |-> mi[c].v + SumSeq([u \in 1..t |-> f.deltas[(c - 1) * p.dc + u]])]]
    IN  IF Len(mi) = 0 THEN [failed |-> FALSE, samples |-> <<>>]
        ELSE IF p.mc # Len(mi) THEN [failed |-> TRUE, samples |-> <<>>]
        ELSE IF ~f.ok THEN [failed |-> TRUE, samples |-> << mi >>]
        ELSE [failed |-> FALSE,
              samples |-> << mi >> \o [t \in 1..p.dc |-> record(t)]]

RECURSIVE iter_bytes(_, _, _, _)
iter_bytes(st, n, e, acc) ==
    IF e > Len(st) \/ n - StartOf(st, e) < LEN_PREFIX
       \/ n - StartOf(st, e) < st[e].len
       \/ getftdc_branch(TRUE, st[e].type) # "chunk"
    THEN [failed |-> FALSE, samples |-> acc]
    ELSE LET c == decode_chunk(st[e].payload)
         IN  IF c.failed THEN [failed |-> TRUE, samples |-> acc \o c.samples]
             ELSE iter_bytes(st, n, e + 1, acc \o c.samples)

(***************************************************************************)
(* C13: whatever the partition of the bytes into blocks, with no memory    *)
(* bound or one at least the largest document length, iteration over the   *)
(* block source ends with the same samples in the same order as iteration  *)
(* over the same bytes as one object, and with an error only if that one   *)
(* ends with an error.                                                     *)
(***************************************************************************)
C13_BlocksEqualBytes ==
    impl = "ftdc_iter" /\ pc \in {"done", "error"} /\ BoundFits =>
        LET b == iter_bytes(stream, RawLen, 1, <<>>)
        IN  /\ out = b.samples
            /\ (pc = "error") = b.failed

(***************************************************************************)
(* Yardsticks for the rollup claims, computed from the input records in    *)
(* whole nanoseconds.                                                      *)
(***************************************************************************)
HasDuration(r) == r.timers # "none"
Usable(rs) == SelectSeq(rs, HasDuration)
AllUsable == \A j \in 1..Len(records) : HasDuration(records[j])

\* all_statistics has returned a list.
Returned == all_result.query = "all_statistics" /\ ~all_result.raised

StatValue(j) == all_result.value[j].value

Extracted(rs, j) == rs[j].d - (IF j = 1 THEN 0 ELSE rs[j - 1].d)
StartNs(rs, j) == rs[j].ts * NANO_TO_MILLISECONDS - Extracted(rs, j)
MinStartNs(rs) ==
    CHOOSE m \in { StartNs(rs, j) : j \in 1..Len(rs) } :
        \A j \in 1..Len(rs) : m <= StartNs(rs, j)
WallNs(rs) == rs[Len(rs)].ts * NANO_TO_MILLISECONDS - MinStartNs(rs)

(***************************************************************************)
(* C14: when all_statistics returns for an input with at least one usable  *)
(* record, ErrorsTotal, OperationsTotal, DocumentsTotal and SizeTotal are   *)
(* the counters of the last such record of the input.                      *)
(***************************************************************************)
C14_CountersFromLast ==
    Returned /\ Usable(records) # <<>> =>
        LET last == Usable(records)[Len(Usable(records))]
        IN  /\ all_result.value[12] =
                   Statistic("ErrorsTotal", QInt(last.errors), 3, FALSE)
            /\ all_result.value[13] =
                   Statistic("OperationsTotal", QInt(last.ops), 3, FALSE)
            /\ all_result.value[14] =
                   Statistic("DocumentsTotal", QInt(last.n), 0, FALSE)
            /\ all_result.value[15] =
                   Statistic("SizeTotal", QInt(last.size), 3, FALSE)

C14_Witness ==
    /\ Returned /\ records = << RecA, RecB, RecC >>
    /\ StatValue(13) = QInt(3) /\ StatValue(15) = QInt(9)

(***************************************************************************)
(* C15: repeated queries agree.  A second all_statistics returns what the  *)
(* first returned, and a property query returns the entry (for             *)
(* latency_quantiles the five entries) that all_statistics returns for it, *)
(* in whichever order the two queries are made.                            *)
(***************************************************************************)
EntryOf(name) ==
    CASE name = "average_latency"      -> << 1 >>
      [] name = "average_size"         -> << 2 >>
      [] name = "operation_throughput" -> << 3 >>
      [] name = "document_throughput"  -> << 4 >>
      [] name = "error_rate"           -> << 5 >>
      [] name = "size_throughput"      -> << 6 >>
      [] name = "workers_min"          -> << 7 >>
      [] name = "workers_max"          -> << 8 >>
      [] name = "latency_min"          -> << 9 >>
      [] name = "latency_max"          -> << 10 >>
      [] name = "duration_total"       -> << 11 >>
      [] name = "errors_total"         -> << 12 >>
      [] name = "operations_total"     -> << 13 >>
      [] name = "documents_total"      -> << 14 >>
      [] name = "size_total"           -> << 15 >>
      [] name = "overhead_total"       -> << 16 >>
      [] name = "latency_quantiles"    -> << 17, 18, 19, 20, 21 >>

PropertyAgrees(p, a) ==
    p.query \in PropertyNames /\ a.query = "all_statistics" /\ ~a.raised =>
        p.value = [j \in 1..Len(EntryOf(p.query)) |-> a.value[EntryOf(p.query)[j]]]

C15_Idempotent ==
    [][ /\ all_result.query = "all_statistics" => all_result' = all_result
        /\ PropertyAgrees(prop_result', all_result') ]_vars

(***************************************************************************)
(* C16: every Statistic the rollup emits, in a list or from a property,    *)
(* carries the version of its name: as listed in the table of the          *)
(* specification (C16_SpecVersions), and as the code and its tests have    *)
(* them (C16_Versions), which differ for OperationThroughput,              *)
(* DocumentThroughput, ErrorRate, SizeThroughput and DurationTotal.        *)
(***************************************************************************)
Emitted ==
    { prop_result.value[j] : j \in 1..Len(prop_result.value) }
    \cup { all_result.value[j] : j \in 1..Len(all_result.value) }

SpecVersions ==
    [AverageLatency |-> 3, AverageSize |-> 3, OperationThroughput |-> 4,
     DocumentThroughput |-> 0, ErrorRate |-> 4, SizeThroughput |-> 4,
     WorkersMin |-> 3, WorkersMax |-> 3, LatencyMin |-> 4, LatencyMax |-> 4,
     DurationTotal |-> 4, OverheadTotal |-> 1, Latency50thPercentile |-> 4,
     Latency80thPercentile |-> 4, Latency90thPercentile |-> 4,
     Latency95thPercentile |-> 4, Latency99thPercentile |-> 4]

CodeVersions ==
    [SpecVersions EXCEPT !.OperationThroughput = 5, !.DocumentThroughput = 1,
                         !.ErrorRate = 5, !.SizeThroughput = 5,
                         !.DurationTotal = 5]

CarryVersions(table) ==
    \A s \in Emitted :
        s.name \in DOMAIN table => s.version = table[s.name]

C16_SpecVersions == CarryVersions(SpecVersions)

C16_Versions == CarryVersions(CodeVersions)

C16_Witness ==
    /\ Returned /\ records # <<>>
    /\ prop_result.query = "duration_total"
    /\ \E s \in Emitted : s.name = "OperationThroughput"

(***************************************************************************)
(* C17: for every input whose records all have a duration, the empty input *)
(* included, all_statistics returns a list, and every list it returns has  *)
(* exactly these 21 entries in this order, with these versions and         *)
(* user_submitted false.                                                   *)
(***************************************************************************)
Contract ==
    << <<"AverageLatency", 3>>, <<"AverageSize", 3>>,
       <<"OperationThroughput", 5>>, <<"DocumentThroughput", 1>>,
       <<"ErrorRate", 5>>, <<"SizeThroughput", 5>>, <<"WorkersMin", 3>>,
       <<"WorkersMax", 3>>, <<"LatencyMin", 4>>, <<"LatencyMax", 4>>,
       <<"DurationTotal", 5>>, <<"ErrorsTotal", 3>>, <<"OperationsTotal", 3>>,
       <<"DocumentsTotal", 0>>, <<"SizeTotal", 3>>, <<"OverheadTotal", 1>>,
       <<"Latency50thPercentile", 4>>, <<"Latency80thPercentile", 4>>,
       <<"Latency90thPercentile", 4>>, <<"Latency95thPercentile", 4>>,
       <<"Latency99thPercentile", 4>> >>

C17_FixedList ==
    /\ all_result.query = "all_statistics" /\ AllUsable => ~all_result.raised
    /\ Returned =>
          /\ Len(all_result.value) = Len(Contract)
          /\ Len(Contract) = 21
          /\ \A j \in 1..Len(Contract) :
                /\ all_result.value[j].name = Contract[j][1]
                /\ all_result.value[j].version = Contract[j][2]
                /\ all_result.value[j].user_submitted = FALSE

C17_Witness ==
    /\ Returned /\ records = <<>>
    /\ Len(all_result.value) = 21
    /\ all_result.value[21].name = "Latency99thPercentile"

(***************************************************************************)
(* C18: after all_statistics has processed a non-empty input whose records *)
(* all have a duration, DurationTotal is the wall time in nanoseconds.     *)
(* C18_WallFromFirstTs takes the wall time from the ts of the first record *)
(* of the input to the ts of the last, so that one record gives 0;         *)
(* C18_WallFromEarliestStart takes it from the smallest start instant      *)
(* (ts minus extracted duration) to the ts of the last record, so that one *)
(* record with duration d gives d.                                         *)
(***************************************************************************)
Processed == Returned /\ AllUsable /\ records # <<>>

TsSpanNs(rs) == (rs[Len(rs)].ts - rs[1].ts) * NANO_TO_MILLISECONDS

C18_WallFromFirstTs ==
    Processed =>
        /\ cps._wall_time_total = Q(TsSpanNs(records), TO_NANOSECONDS)
        /\ StatValue(11) = QInt(TsSpanNs(records))
        /\ Len(records) = 1 => StatValue(11) = QInt(0)

C18_WallFromEarliestStart ==
    Processed =>
        /\ cps._wall_time_total = Q(WallNs(records), TO_NANOSECONDS)
        /\ StatValue(11) = QInt(WallNs(records))
        /\ Len(records) = 1 => StatValue(11) = QInt(records[1].d)

C18_Witness ==
    /\ Processed
    /\ records = << RecA, RecB >>
    /\ StatValue(11) = QInt(2000000)

(***************************************************************************)
(* C19: after all_statistics has processed a non-empty input whose records *)
(* all have a duration, first_record is the earliest record of the input   *)
(* whose start instant (ts minus extracted duration) is the smallest,      *)
(* wherever it stands in the input, it carries that start instant in       *)
(* milliseconds, and the wall time runs from it to the ts of the last      *)
(* record; one record with duration d gives a wall time of d nanoseconds.  *)
(***************************************************************************)
EarliestStart(rs) ==
    CHOOSE ix \in 1..Len(rs) :
        /\ \A j \in 1..Len(rs) : StartNs(rs, ix) <= StartNs(rs, j)
        /\ \A j \in 1..(ix - 1) : StartNs(rs, ix) < StartNs(rs, j)

LastTotals(rs) ==
    LET last == rs[Len(rs)]
    IN  << last.ops, last.n, last.errors, last.size >>

Rate(total, rs) == QDiv(QInt(total), Q(WallNs(rs), TO_NANOSECONDS))

NoZeroDivision == \A s \in Emitted : s.value.den > 0

C20_DivideUnlessZero ==
    /\ NoZeroDivision
    /\ Processed =>
          \A j \in 1..4 :
              StatValue(j + 2) =
                  IF WallNs(records) # 0
                  THEN Rate(LastTotals(records)[j], records)
                  ELSE QInt(LastTotals(records)[j])

C20_DivideWhenPositive ==
    /\ NoZeroDivision
    /\ Processed =>
          \A j \in 1..4 :
              StatValue(j + 2) =
                  IF WallNs(records) > 0
                  THEN Rate(LastTotals(records)[j], records)
                  ELSE QInt(LastTotals(records)[j])

\* A negative wall time: the last record's ts lies before the start instants.
C20_Witness ==
    /\ Processed
    /\ records = << RecA, RecZ >>
    /\ WallNs(records) < 0
    /\ StatValue(3) = QInt(RecZ.ops)
    /\ prop_result.query = "operation_throughput"

(***************************************************************************)
(* C21: after all_statistics has processed an input whose records all have *)
(* a duration, the extracted latencies are the differences of consecutive  *)
(* durations (the first against 0), LatencyMin is their minimum and        *)
(* LatencyMax their maximum, and both are 0 when no record was processed.  *)
(***************************************************************************)
Latencies(rs) == [j \in 1..Len(rs) |-> Extracted(rs, j)]

MinOf(xs) ==
    CHOOSE m \in { xs[j] : j \in 1..Len(xs) } :
        \A j \in 1..Len(xs) : m <= xs[j]

MaxOf(xs) ==
    CHOOSE m \in { xs[j] : j \in 1..Len(xs) } :
        \A j \in 1..Len(xs) : xs[j] <= m

C21_LatencyExtrema ==
    /\ Processed =>
          /\ cps._extracted_durations = Latencies(records)
          /\ StatValue(9) = QInt(MinOf(Latencies(records)))
          /\ StatValue(10) = QInt(MaxOf(Latencies(records)))
          /\ \A j \in 1..Len(records) :
                /\ ~QLess(QInt(Extracted(records, j)), StatValue(9))
                /\ ~QLess(StatValue(10), QInt(Extracted(records, j)))
    /\ Returned /\ records = <<>> =>
          StatValue(9) = QInt(0) /\ StatValue(10) = QInt(0)
    /\ cps._extracted_durations = <<>> /\ prop_result.query = "latency_min" =>
          prop_result.value[1].value = QInt(0)
    /\ cps._extracted_durations = <<>> /\ prop_result.query = "latency_max" =>
          prop_result.value[1].value = QInt(0)

\* B then A: the second latency is negative.
C21_Witness ==
    /\ Processed
    /\ records = << RecB, RecA, RecC >>
    /\ StatValue(9) = QInt(-500000)
    /\ StatValue(10) = QInt(5000000)

(***************************************************************************)
(* C22: the two workers gauges are always equal and never above 0; after   *)
(* all_statistics has processed an input whose records all have a          *)
(* duration, WorkersMin and WorkersMax are both the smaller of 0 and the   *)
(* smallest gauges.workers of the input, hence 0 when none is negative.    *)
(***************************************************************************)
Workers(rs) == [j \in 1..Len(rs) |-> rs[j].workers]

SmallestWorkers(rs) == IF rs = <<>> THEN 0 ELSE PyMin(0, MinOf(Workers(rs)))

C23_MissingField ==
    all_result.query = "all_statistics" /\ ~AllUsable =>
        /\ all_result.raised
        /\ all_result.value = <<>>
        /\ source = "iterator" => ~HasDuration(records[rpos - 1])

(***************************************************************************)
(* C24: once all_statistics has raised the missing-field error, every      *)
(* property of the rollup returns what it returns on a freshly constructed *)
(* rollup, and a query made after the error returns that value.            *)
(***************************************************************************)
C24_StateDiscarded ==
    all_result.raised =>
        /\ \A name \in PropertyNames :
              property(name, cps) = property(name, NewStatistics)
        /\ cps._extracted_durations = <<>>

(***************************************************************************)
(* C25: over an input of no records all_statistics raises no error and     *)
(* returns its 21 statistics with value 0, on the first call and on every  *)
(* later one, and every property returns 0 as well.                        *)
(***************************************************************************)
AllZero(stats) == \A j \in 1..Len(stats) : stats[j].value = QInt(0)

C25_EmptyRollup ==
    records = <<>> =>
        /\ all_result.query = "all_statistics" =>
              /\ ~all_result.raised
              /\ Len(all_result.value) = 21
              /\ AllZero(all_result.value)
        /\ prop_result.query # "" =>
              /\ prop_result.value # <<>>
              /\ AllZero(prop_result.value)

C25_Witness ==
    /\ records = <<>>
    /\ Returned
    /\ AllZero(all_result.value)
    /\ prop_result.query = "latency_quantiles"
    /\ calls = MaxQueries

(***************************************************************************)
(* C26: the columns a decoder derives from the reference document of a     *)
(* chunk are the metric leaves of the document in pre-order: column j has  *)
(* the key path and the initial value of the j-th leaf visited, and an     *)
(* empty reference document gives no column.                               *)
(***************************************************************************)
Columns(ms) ==
    [j \in 1..Len(ms) |->
        IF impl = "decode_iter"
        THEN [k |-> ms[j].key_path, v |-> ms[j].values[1].v]
        ELSE ms[j]]

C26_PreOrder ==
    [][ /\ (iter_chunk_header /\ pc' \in {"d_fill", "d_check"}) =>
               Columns(metrics') = RefLeaves(cur'.payload.ref, <<>>)
        /\ decode_chunk_header =>
               Columns(metrics') = RefLeaves(cur.payload.ref, <<>>) ]_vars

C26_Witness ==
    /\ pc # "error"
    /\ InChunk
    /\ cur.payload.ref = R3
    /\ Len(metrics) = 3
    /\ Columns(metrics)[2].k = << "s", "b" >>
    /\ Columns(metrics)[3] = [k |-> << "s", "u", "c" >>, v |-> 0]

(***************************************************************************)
(* C27: no leaf type of a reference document makes a decoder fail, and the *)
(* columns a decoder derives for a chunk are exactly the int32, int64,     *)
(* double, bool and datetime leaves of its reference document.             *)
(***************************************************************************)
ColumnsDerived ==
    IF impl = "decode_iter"
    THEN pc \in {"d_fill", "d_check", "d_yield"}
    ELSE gpc \in {"fill", "records"}

C27_MetricLeafTypes ==
    /\ err # "ValueError: unknown type"
    /\ ColumnsDerived =>
          Paths(Columns(metrics)) = Paths(RefLeaves(cur.payload.ref, <<>>))

(***************************************************************************)
(* C28: in every delivered sample of a well-formed chunk, the leaf of a    *)
(* column whose reference leaf is a bool is false or true (0 or 1), and it *)
(* is true exactly when the reference value plus the deltas up to that     *)
(* sample is not 0.                                                        *)
(***************************************************************************)
RECURSIVE BoolPaths(_, _)
BoolPaths(d, prefix) ==
    IF d = <<>> THEN {}
    ELSE (CASE Head(d).bt \in {BSON_SUBDOC, BSON_ARRAY}
                 -> BoolPaths(Head(d).sub, Append(prefix, Head(d).key))
            [] Head(d).bt = BSON_BOOL -> { Append(prefix, Head(d).key) }
            [] OTHER -> {})
         \cup BoolPaths(Tail(d), prefix)

C28_BoolColumns ==
    \A j \in 1..Len(out) :
        LET p  == stream[outChunk[j].env].payload
            n  == outChunk[j].idx
            rl == RefLeaves(p.ref, <<>>)
            ls == SampleLeaves(out[j])
        IN  WellFormed(p) =>
                \A c \in 1..Len(rl) :
                    rl[c].k \in BoolPaths(p.ref, <<>>) =>
                        \A q \in 1..Len(ls) :
                            ls[q].k = rl[c].k =>
                                /\ ls[q].v \in {0, 1}
                                /\ ls[q].v = 1 <=>
                                       rl[c].v + SumSeq(ColumnDeltas(p, c, n)) # 0

(***************************************************************************)
(* Pairs of chunks for decoding separately and joined: two well-formed     *)
(* payloads whose reference documents have the same keys and types, and    *)
(* the payload made of the first one's reference document, both delta      *)
(* byte strings in a row and the sum of the delta counts.                  *)
(***************************************************************************)
R1b == << Leaf("a", BSON_INT64, 9) >>
JoinRefDocs == {R1, R1b, R2, R3, R4}

RECURSIVE Schema(_)
Schema(d) ==
    [j \in 1..Len(d) |-> [key |-> d[j].key, bt |-> d[j].bt, sub |-> Schema(d[j].sub)]]

WellFormedPayloads ==
    { p \in { Payload(r, Len(RefLeaves(r, <<>>)), d, Concat(t)) :
                r \in JoinRefDocs, d \in 0..MaxDeltas,
                t \in SeqsUpTo(Tokens, MaxTokens) } : WellFormed(p) }

Joined(a, b) == Payload(a.ref, a.mc, a.dc + b.dc, a.data \o b.data)

JoinCalls ==
    { [fn |-> "join", a |-> pr[1], b |-> pr[2], ab |-> Joined(pr[1], pr[2])] :
        pr \in { q \in WellFormedPayloads \X WellFormedPayloads :
                    /\ q[1].ref \in RefDocs
                    /\ Schema(q[1].ref) = Schema(q[2].ref) } }

\* decode.py _iter_chunk (lines 65-125) as a whole: the columns the sample
\* loop reads, or the exception.
RECURSIVE iter_chunk_deltas(_, _, _, _, _, _)
iter_chunk_deltas(ms, data, dc, n, pos, zc) ==
    IF n = Len(ms) * dc THEN [metrics |-> ms, at |-> pos]
    ELSE LET c    == (n \div dc) + 1
             s    == decode_slot(data, pos, zc)
             last == (n % dc) + 1 = dc
         IN  iter_chunk_deltas(
                 [ms EXCEPT ![c].values =
                     Append(@, add_delta(@[Len(@)], ms[c].kind, s.delta))],
                 data, dc, n + 1, s.at,
                 IF last THEN column_carry(s.zero) ELSE s.zero)

iter_chunk(p) ==
    LET ms == get_metrics_from_ref_doc(p.ref)
        f  == iter_chunk_deltas(ms, p.data, p.dc, 0, 1, 0)
    IN  IF \E j \in 1..Len(ms) : ms[j].kind = "unknown"
        THEN [failed |-> TRUE, metrics |-> <<>>]
        ELSE IF p.mc # Len(ms) THEN [failed |-> TRUE, metrics |-> <<>>]
        ELSE IF trailing_bytes(p.data, f.at) THEN [failed |-> TRUE, metrics |-> <<>>]
        ELSE IF ms = <<>> THEN [failed |-> TRUE, metrics |-> <<>>]
        ELSE [failed |-> FALSE, metrics |-> f.metrics]

(***************************************************************************)
(* Single calls of the functions of the two modules.                       *)
(***************************************************************************)
CallInit ==
    /\ RollupIdle
    /\ impl = "call" /\ stream = <<>> /\ blocks = <<>> /\ memory = None
    /\ InitRest
    /\ call_in \in VarintCalls \cup JoinCalls
    /\ call_out = NoCall

\* decode.py _decode_varint (lines 188-203) on a stream positioned at
\* call_in.at.
decode_varint_call ==
    /\ impl = "call" /\ call_in.fn = "varint" /\ call_out = NoCall
    /\ LET r == decode_varint(call_in.data, call_in.at)
       IN  call_out' = [fn |-> "_decode_varint", res |-> r.res, at |-> r.at,
                        ok |-> TRUE]
    /\ UNCHANGED << decoderVarsOnly, rollupVars, call_in >>

\* ftdc_decoder.py unpack (lines 298-309) at index call_in.at.
unpack_call ==
    /\ impl = "call" /\ call_in.fn = "varint" /\ call_out = NoCall
    /\ LET r == unpack(call_in.data, call_in.at)
       IN  call_out' = [fn |-> "unpack", res |-> r.res, at |-> r.at,
                        ok |-> r.ok]
    /\ UNCHANGED << decoderVarsOnly, rollupVars, call_in >>

\* decode.py _iter_chunk on each of the two chunks and on the joined one.
iter_chunk_call ==
    /\ impl = "call" /\ call_in.fn = "join" /\ call_out = NoCall
    /\ call_out' = [fn |-> "_iter_chunk",
                    a  |-> iter_chunk(call_in.a),
                    b  |-> iter_chunk(call_in.b),
                    ab |-> iter_chunk(call_in.ab)]
    /\ UNCHANGED << decoderVarsOnly, rollupVars, call_in >>

\* ftdc_decoder.py _decode_chunk on each of the two chunks and on the
\* joined one.
decode_chunk_call ==
    /\ impl = "call" /\ call_in.fn = "join" /\ call_out = NoCall
    /\ call_out' = [fn |-> "_decode_chunk",
                    a  |-> decode_chunk(call_in.a),
                    b  |-> decode_chunk(call_in.b),
                    ab |-> decode_chunk(call_in.ab)]
    /\ UNCHANGED << decoderVarsOnly, rollupVars, call_in >>

CallNext ==
    \/ decode_varint_call
    \/ unpack_call
    \/ iter_chunk_call
    \/ decode_chunk_call

CallSpec == CallInit /\ [][CallNext]_vars

(***************************************************************************)
(* C29: reading the varint encoding of a signed 64-bit value v returns v,  *)
(* moves the cursor past exactly the bytes of the encoding, and stops at   *)
(* the first byte whose high bit is clear, in both readers.                *)
(***************************************************************************)
C29_VarintInverse ==
    call_out.fn \in {"_decode_varint", "unpack"} =>
        /\ call_out.ok
        /\ call_out.res = call_in.v
        /\ call_out.at = call_in.at + Len(Encode(call_in.v))
        /\ call_in.data[call_out.at - 1] < GROUP
        /\ \A j \in call_in.at..(call_out.at - 2) : call_in.data[j] >= GROUP

\* -128 takes ten bytes and is followed by the bytes of another varint.
C29_Witness ==
    /\ call_out.fn = "unpack"
    /\ call_in.v = -128
    /\ call_in.at = 3
    /\ Len(call_in.data) = 14
    /\ call_out.res = -128
    /\ call_out.at = 13

(***************************************************************************)
(* C30: for two well-formed chunks A and B over the same reference schema  *)
(* with no zero run pending at the end of A's delta bytes, the chunk made  *)
(* of A's reference document, A's delta bytes followed by B's and          *)
(* delta_count D_A + D_B decodes, in every column, to A's column values    *)
(* followed by B's column values.                                          *)
(*                                                                         *)
(* The joined chunk has D_A + D_B + 1 values in a column, A and B have     *)
(* D_A + D_B + 2 together.  What holds, for chunks of a single column: the *)
(* joined chunk fails to decode exactly when A or B does, and otherwise    *)
(* its column is A's column followed by B's column without B's reference   *)
(* value, each value moved by the difference between A's last value and    *)
(* B's reference value.                                                    *)
(***************************************************************************)
JoinDone == call_in.fn = "join" /\ call_out # NoCall

NoCarryAtJoin == Wire(call_in.a).pending = 0

\* The columns of a decoded chunk as sequences of numbers.
JoinColumns(r) ==
    IF call_out.fn = "_iter_chunk"
    THEN [c \in 1..Len(r.metrics) |->
             [t \in 1..Len(r.metrics[c].values) |-> r.metrics[c].values[t].v]]
    ELSE IF r.samples = <<>> THEN <<>>
    ELSE [c \in 1..Len(r.samples[1]) |->
             [t \in 1..Len(r.samples) |-> r.samples[t][c].v]]

C30_JoinConcatenates ==
    JoinDone /\ NoCarryAtJoin /\ ~call_out.a.failed /\ ~call_out.b.failed =>
        LET ca  == JoinColumns(call_out.a)
            cb  == JoinColumns(call_out.b)
            cab == JoinColumns(call_out.ab)
        IN  /\ ~call_out.ab.failed
            /\ Len(cab) = Len(ca)
            /\ \A c \in 1..Len(ca) : cab[c] = ca[c] \o cb[c]

Continued(ca, cb) ==
    ca \o [t \in 1..(Len(cb) - 1) |-> cb[t + 1] - cb[1] + ca[Len(ca)]]

C30_JoinContinues ==
    JoinDone /\ NoCarryAtJoin /\ call_in.a.mc = 1 =>
        LET ca  == JoinColumns(call_out.a)
            cb  == JoinColumns(call_out.b)
            cab == JoinColumns(call_out.ab)
        IN  /\ call_out.ab.failed <=> (call_out.a.failed \/ call_out.b.failed)
            /\ ~call_out.ab.failed =>
                  /\ Len(cab) = 1
                  /\ cab[1] = Continued(ca[1], cb[1])

C30_Witness ==
    /\ JoinDone /\ NoCarryAtJoin
    /\ call_out.fn = "_iter_chunk"
    /\ call_in.a = Payload(R1, 1, 1, VZero \o VZero)
    /\ call_in.b = Payload(R1b, 1, 2, VTwo \o VNeg)
    /\ ~call_out.ab.failed
    /\ JoinColumns(call_out.a) = << << 5, 5 >> >>
    /\ JoinColumns(call_out.b) = << << 9, 11, 10 >> >>
    /\ JoinColumns(call_out.ab) = << << 5, 5, 7, 6 >> >>

(***************************************************************************)
(* C31: while FTDC iterates over a source of blocks with a memory bound in *)
(* force, the frame never holds more bytes than the bound once a block has *)
(* been appended to it.                                                    *)
(***************************************************************************)
BoundInForce == impl = "ftdc_iter" /\ memory # None

C31_FrameBounded ==
    BoundInForce /\ pc # "start" => FrameLen <= memory

(***************************************************************************)
(* C32: when decoding a chunk raises an error, whatever the error, no      *)
(* sample of that chunk has been delivered to the consumer, the reference  *)
(* sample included.                                                        *)
(***************************************************************************)
C32_AllOrNothing ==
    \A e \in 1..Len(stream) : ChunkFailed(e) => SamplesOf(e) = {}

(***************************************************************************)
(* C33: during the column fill of a chunk the pending-zero counter is      *)
(* never negative, whatever the payload bytes.                             *)
(***************************************************************************)
C33_CounterNonNegative == InChunk => zero_count >= 0

(***************************************************************************)
(* C34: the zero-run state is local to one chunk.  Before the first delta  *)
(* slot of a chunk is filled the pending-zero counter is 0, whatever the   *)
(* previous chunk left, and every delivered sample of a chunk is the       *)
(* sample the chunk's own payload decodes to.                              *)
(***************************************************************************)
\* Sample n (from 0) of a payload decoded on its own.
SampleOfPayload(p, n) ==
    IF impl = "decode_iter"
    THEN BuildDoc(iter_chunk(p).metrics, n + 1, <<>>)
    ELSE decode_chunk(p).samples[n + 1]

\* A chunk whose zero run is longer than its delta slots.
RunLeftOver(e) == IsChunk(e) /\ WellFormed(stream[e].payload)
                  /\ Wire(stream[e].payload).pending > 0

C34_ZeroRunLocal ==
    /\ InChunk /\ log = <<>> => zero_count = 0
    /\ \A j \in 1..Len(out) :
          out[j] = SampleOfPayload(stream[outChunk[j].env].payload, outChunk[j].idx)

C34_Witness ==
    /\ Len(stream) = 2
    /\ RunLeftOver(1)
    /\ stream[2].payload = PA
    /\ Passed(2)
    /\ Cardinality(SamplesOf(2)) = 2

(***************************************************************************)
(* C35: the two decoders agree.  For a well-formed stream of chunk         *)
(* envelopes whose reference leaves are int64, bool or datetime, the       *)
(* samples decode_iter has delivered when it ends are as many as FTDC      *)
(* delivers for the same bytes, and at every sample index the leaves have  *)
(* the same key paths and numerically equal values.                        *)
(***************************************************************************)
LeafTypes(d) ==
    LET pv == get_paths_and_vals(d, <<>>)
    IN  { pv[j].node.bt : j \in 1..Len(pv) }

AgreeInput ==
    \A e \in 1..Len(stream) :
        /\ IsChunk(e) /\ WellFormed(stream[e].payload)
        /\ LeafTypes(stream[e].payload.ref) \subseteq
               {BSON_INT64, BSON_BOOL, BSON_DATETIME}

LeafSet(ls) == { ls[j] : j \in 1..Len(ls) }

C35_DecodersAgree ==
    impl = "decode_iter" /\ pc \in {"done", "error"} /\ AgreeInput =>
        LET f == iter_bytes(stream, TotalLen(stream), 1, <<>>)
        IN  /\ pc = "done" /\ ~f.failed
            /\ Len(out) = Len(f.samples)
            /\ \A j \in 1..Len(out) :
                  LeafSet(DocLeaves(out[j], <<>>)) = LeafSet(f.samples[j])

(***************************************************************************)
(* C36: after all_statistics has processed a non-empty input whose ts      *)
(* values never decrease and whose first duration is not negative, the     *)
(* wall time is not negative, and so DurationTotal is not negative.        *)
(***************************************************************************)
NonDecreasingTs(rs) == \A j \in 1..(Len(rs) - 1) : rs[j].ts <= rs[j + 1].ts

C36_WallNonNegative ==
    Processed /\ NonDecreasingTs(records) /\ records[1].d >= 0 =>
        /\ cps._wall_time_total.num >= 0
        /\ duration_total(cps).value.num >= 0
        /\ all_result.value[11].name = "DurationTotal"
        /\ all_result.value[11].value.num >= 0

C36_Witness ==
    /\ Processed
    /\ records = << RecZ, RecB, RecB >>
    /\ cps._extracted_durations = << 0, 1500000, 0 >>
    /\ cps._wall_time_total = Q(3, 1000)
    /\ all_result.value[11].value = QInt(3000000)

(***************************************************************************)
(* C37: the rollup never changes the records it consumes.  No query        *)
(* changes a record of the input; the key start_ts is on the copy kept as  *)
(* first_record and on no record of the input.                             *)
(***************************************************************************)
C37_InputUnchanged ==
    [][/\ records' = records
       /\ \A j \in 1..Len(records') : records'[j].start_ts = <<>>]_vars

C37_Witness ==
    /\ Processed
    /\ records = << RecA, RecB >>
    /\ cps.first_record # <<>>
    /\ cps.first_record[1].start_ts = << QInt(9) >>
    /\ [cps.first_record[1] EXCEPT !.start_ts = <<>>] = records[1]

=============================================================================
